---- MODULE Spec2Model ----
(***************************************************************************)
(* Verification model of the wedding-invite page scripts.                  *)
(*                                                                         *)
(*   js/main.js        accordion and itinerary-tab click/keydown handlers  *)
(*   js/animations.js  ScrollAnimations (IntersectionObserver reveal)      *)
(*   js/utils.js       debounce and throttle                               *)
(*   js/main.js        background audio (autoplay, visibility, interaction)*)
(*   main.js (popup)   the variant of main.js with the welcome popup       *)
(*   js/forms.js       ContactForm (validation, simulated submission)      *)
(*   js/navigation.js  Navigation (mobile menu, scroll effects)            *)
(*   js/main.js        scroll indicator                                    *)
(*                                                                         *)
(* The browser is single threaded: every action below is one event         *)
(* handler run to completion.                                              *)
(***************************************************************************)
EXTENDS Integers, Sequences, FiniteSets, TLC

(***************************************************************************)
(* Bounds of the model (sizes of the page, lengths of histories).          *)
(***************************************************************************)
NItems == 3
NTabs == 3
MaxLog == 3
NElems == 2
NCards == 5
MaxDestroy == 2
MaxCalls == 3
NArgs == 2
Wait == 2
Limit == 3
MaxPlays == 2
MaxCloseTimers == 2
MaxSubmits == 2
MaxLen == 6
NLinks == 2

Items == 0 .. (NItems - 1)
Tabs == 0 .. (NTabs - 1)
NoPanel == 0 - 1

\* KeyboardEvent.key values delivered to the keydown handlers.
Keys == {"Enter", " ", "Escape"}
NoKey == "-"

VARIABLES
  itemActive,      \* accordion items carrying the class 'active'
  ariaExpanded,    \* aria-expanded of the header of each accordion item
  itemHasHeader,   \* markup: does item.querySelector('.accordion-header') exist
  itemAccordion,   \* markup: the '.accordion' container each item sits in
  closedAtLoad,    \* history: no item carried 'active' in the loaded markup
  activations,     \* history: targets of the accordion click-handler runs
  tabButtonActive, \* tab buttons carrying the class 'active'
  tabPanelActive,  \* tab panels (by id) carrying the class 'active'
  dataTab,         \* markup: data-tab of each button (NoPanel: no such id)
  tabWasActive,    \* history: the last event clicked a tab button that was active
  domReady,        \* initAccordion(); initItineraryTabs() have run
  headersFound,    \* markup: number of '.accordion-header' elements
  tabButtonsFound, \* markup: number of '.tab-button' elements
  tabPanelsFound,  \* markup: number of '.tab-panel' elements
  headersWired,    \* accordion headers 0 .. headersWired-1 have their listeners
  tabButtonsWired, \* tab buttons 0 .. tabButtonsWired-1 have their listeners
  warnings,        \* messages written with console.warn
  immediate,       \* debounce: the parameter immediate
  timeout,         \* debounce: time left of the pending timer (NoTimer: none)
  laterArgs,       \* debounce: args captured by the pending 'later'
  inThrottle,      \* throttle: inThrottle
  lastFunc,        \* throttle: time left of the pending timer (NoTimer: none)
  lastFuncArgs,    \* throttle: args captured by the pending timer callback
  sinceLastRan,    \* throttle: Date.now() - lastRan, counted up to Limit
                   \* (negative differences count as 0)
  calls,           \* history: number of calls of the wrapper so far
  lastArgs,        \* history: args of the most recent call of the wrapper
  funcRuns,        \* history: number of executions of func so far
  funcArgs,        \* history: args of the last execution of func
  sinceRun,        \* history: Date.now() minus the time of that execution,
                   \* counted up to Limit
  pendingTimers,   \* debounce: timers of the wrapper in the browser's timer list
  sinceCall,       \* history: time since the most recent call, counted up to Wait
  bursts,          \* history: number of calls made Wait or more after the previous one
  audioSupported,  \* platform: new Audio(...) succeeds
  backgroundAudio, \* backgroundAudio: "null" or "audio"
  audiosCreated,   \* history: number of Audio objects constructed
  audioInitialized,\* audioInitialized
  audioPaused,     \* backgroundAudio.paused (TRUE while there is no element)
  docHidden,       \* document.hidden
  autoplayTimer,   \* time left of the 1000 ms timer (NoTimer: not pending)
  playRequests,    \* history: calls of backgroundAudio.play(), up to MaxPlays
  visibilityListener,  \* the 'visibilitychange' listener is registered
  interactionListeners,\* the 'click' / 'touchstart' listeners are registered
  audioLog,        \* the last console message of the audio functions
  hiddenHandled,   \* history: the listener has handled the change to hidden
                   \* and the document has not become visible since
  popupOverlay,    \* markup: the element #popup-overlay exists
  enterButton,     \* markup: the element #popup-enter exists
  popupWired,      \* initWelcomePopup has added its listeners
  popupDisplay,    \* popupOverlay.style.display
  popupOpacity,    \* popupOverlay.style.opacity
  closeTimers,     \* number of pending 500 ms popup-close timers
  fieldValue,      \* form: value of each field
  fieldError,      \* form: text of each field's error element
  fieldClassError, \* form: the field has class 'error'
  fieldAriaInvalid,\* form: the field's aria-invalid attribute ('' when absent)
  submitLoading,   \* form: the submit button has class 'loading'
  submitDisabled,  \* form: submitButton.disabled
  statusText,      \* form: statusElement.textContent
  statusClass,     \* form: statusElement.className
  statusRole,      \* form: role attribute of the status element
  requestPending,  \* form: the promise of submitForm is pending
  submissions,     \* history: number of submissions started
  outcomes,        \* history: number of showSuccess / showError calls
  submittedValues, \* history: field values when the pending submission started
  pageYOffset,     \* window: window.pageYOffset
  navToggle,       \* markup: the navigation has a .nav-toggle
  linkTarget,      \* markup: the section a link's href names exists
  isMenuOpen,      \* navigation: this.isMenuOpen
  menuOpenClass,   \* navigation: the menu has class 'open'
  toggleAria,      \* navigation: aria-expanded of the toggle
  bodyOverflow,    \* navigation: document.body.style.overflow
  ticking,         \* navigation: ticking of setupScrollEffects
  rafPending,      \* navigation: animation-frame callbacks requested, not yet run
  navScrolled,     \* navigation: the nav has class 'scrolled'
  activeLinks,     \* navigation: links with class 'active'
  scrollSeen,      \* history: a scroll event has been handled
  innerWidth,      \* window: window.innerWidth
  scrollIndicator, \* markup: the element #scroll-indicator exists
  hasScrolled,     \* indicator: hasScrolled
  indicatorHidden, \* indicator: the element has class 'hidden'
  indicatorDisplay,\* indicator: scrollIndicator.style.display
  scrollListener,  \* indicator: handleScroll is a 'scroll' listener
  touchListener,   \* indicator: the once-only 'touchstart' listener is registered
  touchTimer,      \* indicator: the 100 ms timer of the touch is pending
  lastEvent,       \* history: the DOM event handled last
  threw,           \* the handler of the last event ended with a TypeError
  configArg,       \* ScrollAnimations: the config passed to the constructor
  config,          \* ScrollAnimations: this.config (threshold in percent)
  prefersReducedMotion, \* ScrollAnimations: matchMedia(...).matches
  initCalled,      \* ScrollAnimations: init() has run
  observer,        \* this.observer: "null", "observing" or "disconnected"
  observed,        \* targets registered with the IntersectionObserver
  animatedElements,\* this.animatedElements
  classList,       \* classList of every animated element of the page
  style,           \* inline style (opacity, transform) of those elements
  dataAnimate,     \* markup: data-animate attribute ("" when absent)
  inHero,          \* markup: element.closest('.hero-section') exists
  animationendListeners, \* 'animationend' listeners registered on document
  destroyCalls,    \* history: number of destroy() calls so far
  cardDelay,       \* style.animationDelay of each card ("" when unset)
  lastStagger      \* history: arguments of the last applyStaggeredDelays

discVars == << itemActive, ariaExpanded, itemHasHeader, itemAccordion,
               closedAtLoad, activations, tabButtonActive, tabPanelActive,
               dataTab, tabWasActive >>

revealVars == << configArg, config, prefersReducedMotion, initCalled, observer,
                 observed, animatedElements, classList, style, dataAnimate,
                 inHero, animationendListeners, destroyCalls >>

staggerVars == << cardDelay, lastStagger >>

regVars == << domReady, headersFound, tabButtonsFound, tabPanelsFound,
              headersWired, tabButtonsWired, warnings >>

timerVars == << immediate, timeout, laterArgs, inThrottle, lastFunc,
                lastFuncArgs, sinceLastRan, calls, lastArgs, funcRuns,
                funcArgs, sinceRun, pendingTimers, sinceCall, bursts >>

audioVars == << audioSupported, backgroundAudio, audiosCreated, audioInitialized,
                audioPaused, docHidden, autoplayTimer, visibilityListener,
                interactionListeners, audioLog, hiddenHandled, playRequests >>

popupVars == << popupOverlay, enterButton, popupWired, popupDisplay,
                popupOpacity, closeTimers >>

formVars == << fieldValue, fieldError, fieldClassError, fieldAriaInvalid,
               submitLoading, submitDisabled,
               statusText, statusClass, statusRole, requestPending,
               submissions, outcomes, submittedValues >>

windowVars == << pageYOffset, innerWidth >>

indicatorVars == << scrollIndicator, hasScrolled, indicatorHidden,
                    indicatorDisplay, scrollListener, touchListener,
                    touchTimer >>

navVars == << navToggle, linkTarget, isMenuOpen, menuOpenClass, toggleAria,
              bodyOverflow, ticking, rafPending, navScrolled, activeLinks,
              scrollSeen >>

vars == << discVars, revealVars, staggerVars, regVars, timerVars, audioVars,
           popupVars, formVars, windowVars, navVars, indicatorVars,
           lastEvent, threw >>

\* What the handlers of one part of the page leave alone.
notDisc == << revealVars, staggerVars, regVars, timerVars, audioVars,
  popupVars, formVars,
  windowVars, navVars, indicatorVars >>
notReveal == << discVars, staggerVars, regVars, timerVars, audioVars,
  popupVars, formVars,
  windowVars, navVars, indicatorVars >>
notStagger == << discVars, revealVars, regVars, timerVars, audioVars,
  popupVars, formVars,
  windowVars, navVars, indicatorVars >>
notReg == << discVars, revealVars, staggerVars, timerVars, audioVars,
  popupVars, formVars,
  windowVars, navVars, indicatorVars >>
notTimers == << discVars, revealVars, staggerVars, regVars, audioVars,
  popupVars, formVars,
  windowVars, navVars, indicatorVars >>
notAudio == << discVars, revealVars, staggerVars, regVars, timerVars,
              popupVars, formVars,
  windowVars, navVars, indicatorVars >>
notPopup == << discVars, revealVars, staggerVars, regVars, timerVars,
              formVars,
  windowVars, navVars, indicatorVars >>
notForm == << discVars, revealVars, staggerVars, regVars, timerVars,
             audioVars, popupVars,
  windowVars, navVars, indicatorVars >>
notNav == << discVars, revealVars, staggerVars, regVars, timerVars,
            audioVars, popupVars, formVars, innerWidth, indicatorVars >>
notIndicator == << discVars, revealVars, staggerVars, regVars, timerVars,
                  audioVars, popupVars, formVars, navVars >>

NoEvent == [kind |-> "none", key |-> NoKey]
Event(kind, key) == [kind |-> kind, key |-> key]

(***************************************************************************)
(* Accordion: click handler of main.js initAccordion.                      *)
(***************************************************************************)

\* Variant: the handler does not read the state of the clicked item.
isActive_never(active, i) == FALSE

\* const isActive = accordionItem.classList.contains('active')
isActive(active, i) == i \in active

\* Index of the first '.accordion-item' without a header (NItems if none):
\* item.querySelector('.accordion-header') is null there and setAttribute
\* on it raises a TypeError that ends the handler.
FirstHeaderless(hasHeader) ==
  IF \E j \in Items : ~hasHeader[j]
    THEN CHOOSE j \in Items : ~hasHeader[j] /\ \A k \in Items : ~hasHeader[k] => j <= k
    ELSE NItems

\* Variant: the close-all loop is missing.
closeAllItems_none(active, hasHeader) == active

\* The close-all loop over document.querySelectorAll('.accordion-item'):
\* classList.remove('active') runs for every item up to and including the
\* first headerless one.
closeAllItems(active, hasHeader) ==
  { j \in active : j > FirstHeaderless(hasHeader) }

\* Variant: the close-all loop leaves aria-expanded alone.
closeAllAria_none(aria, hasHeader) == aria

\* ... and setAttribute('aria-expanded','false') for every item before it.
closeAllAria(aria, hasHeader) ==
  [ j \in Items |-> IF j < FirstHeaderless(hasHeader) THEN "false" ELSE aria[j] ]

\* Variant: the clicked item is never given 'active'.
openClicked_never(closed, wasActive, i) == closed

\* if (!isActive) { accordionItem.classList.add('active'); ... }
openClicked(closed, wasActive, i) ==
  IF ~wasActive THEN closed \cup {i} ELSE closed

openClickedAria(aria, wasActive, i) ==
  IF ~wasActive THEN [aria EXCEPT ![i] = "true"] ELSE aria

\* One run of the click handler on header i.
accordionClick(s, hasHeader, i) ==
  LET wasActive == isActive(s.active, i)
      closed == closeAllItems(s.active, hasHeader)
      aria == closeAllAria(s.aria, hasHeader)
  IN IF FirstHeaderless(hasHeader) < NItems
       THEN [active |-> closed, aria |-> aria, threw |-> TRUE]
       ELSE [active |-> openClicked(closed, wasActive, i),
             aria |-> openClickedAria(aria, wasActive, i),
             threw |-> FALSE]

(***************************************************************************)
(* Keyboard accessibility handlers (accordion headers and tab buttons).    *)
(***************************************************************************)

\* if (e.key === 'Enter' || e.key === ' ')
activatesOnKey(k) == k = "Enter" \/ k = " "

\* Variant: the handler does not call e.preventDefault().
keydownPreventsDefault_never(k) == FALSE

\* e.preventDefault() is called in exactly that branch.
keydownPreventsDefault(k) == activatesOnKey(k)

\* Number of click events the element receives for one keydown: one from
\* header.click() in the handler, and one from the native activation of a
\* button by Enter/Space unless the keydown's default was prevented.
keydownClicks(k) ==
  (IF activatesOnKey(k) THEN 1 ELSE 0)
  + (IF k \in {"Enter", " "} /\ ~keydownPreventsDefault(k) THEN 1 ELSE 0)

RECURSIVE accordionClicks(_, _, _, _)
accordionClicks(s, hasHeader, i, n) ==
  IF n = 0 THEN s
  ELSE LET r == accordionClick(s, hasHeader, i)
       IN accordionClicks([r EXCEPT !.threw = s.threw \/ r.threw], hasHeader, i, n - 1)

\* History of click-handler runs: exact up to MaxLog runs, LogOverflow after.
LogOverflow == << NoPanel >>

RECURSIVE Logged(_, _, _)
Logged(log, i, n) ==
  IF n = 0 \/ log = LogOverflow THEN log
  ELSE IF Len(log) >= MaxLog THEN LogOverflow
  ELSE Logged(Append(log, i), i, n - 1)

AccState == [active |-> itemActive, aria |-> ariaExpanded, threw |-> FALSE]

AccordionApply(i, n) ==
  LET r == accordionClicks(AccState, itemHasHeader, i, n)
  IN /\ itemActive' = r.active
     /\ ariaExpanded' = r.aria
     /\ threw' = r.threw
     /\ activations' = Logged(activations, i, n)
     /\ UNCHANGED << itemHasHeader, itemAccordion, closedAtLoad >>

(***************************************************************************)
(* Itinerary tabs: click handler of main.js initItineraryTabs.             *)
(***************************************************************************)

\* Variant: a click on the active button toggles it off.
tabClickButtons_toggle(buttons, b) == IF b \in buttons THEN {} ELSE {b}

\* tabButtons.forEach(btn => btn.classList.remove('active'));
\* button.classList.add('active')
tabClickButtons(buttons, b) == (buttons \ Tabs) \cup {b}

\* Variant: the panels are cleared only when the target panel exists.
tabClickPanels_keep(panels, target) ==
  IF target # NoPanel THEN (panels \ Tabs) \cup {target} ELSE panels

\* tabPanels.forEach(panel => panel.classList.remove('active'));
\* const targetPanel = document.getElementById(targetTab);
\* if (targetPanel) targetPanel.classList.add('active')
tabClickPanels(panels, target) ==
  IF target # NoPanel THEN (panels \ Tabs) \cup {target} ELSE panels \ Tabs

tabClick(s, targets, b) ==
  [buttons |-> tabClickButtons(s.buttons, b),
   panels |-> tabClickPanels(s.panels, targets[b])]

RECURSIVE tabClicks(_, _, _, _)
tabClicks(s, targets, b, n) ==
  IF n = 0 THEN s ELSE tabClicks(tabClick(s, targets, b), targets, b, n - 1)

TabState == [buttons |-> tabButtonActive, panels |-> tabPanelActive]

TabApply(b, n) ==
  LET r == tabClicks(TabState, dataTab, b, n)
  IN /\ tabButtonActive' = r.buttons
     /\ tabPanelActive' = r.panels
     /\ tabWasActive' = IF n = 0 THEN FALSE
                        ELSE IF n = 1 THEN b \in tabButtonActive
                        ELSE b \in tabClicks(TabState, dataTab, b, n - 1).buttons
     /\ threw' = FALSE
     /\ UNCHANGED dataTab

(***************************************************************************)
(* Events of the disclosure widgets.                                       *)
(***************************************************************************)
accVars == << itemActive, ariaExpanded, itemHasHeader, itemAccordion,
              closedAtLoad, activations >>
tabVars == << tabButtonActive, tabPanelActive, dataTab, tabWasActive >>

\* Pointer click on the header of accordion item i.
AccordionHeaderClickOn(i) ==
  /\ i < headersWired
  /\ itemHasHeader[i]
  /\ lastEvent' = Event("accordionClick", NoKey)
  /\ AccordionApply(i, 1)
  /\ tabWasActive' = FALSE
  /\ UNCHANGED << tabButtonActive, tabPanelActive, dataTab >>

AccordionHeaderClick == \E i \in Items : AccordionHeaderClickOn(i)

\* keydown of key k on the header of accordion item i.
AccordionHeaderKeydownOn(i, k) ==
  /\ i < headersWired
  /\ itemHasHeader[i]
  /\ lastEvent' = Event("accordionKeydown", k)
  /\ AccordionApply(i, keydownClicks(k))
  /\ tabWasActive' = FALSE
  /\ UNCHANGED << tabButtonActive, tabPanelActive, dataTab >>

AccordionHeaderKeydown == \E i \in Items, k \in Keys : AccordionHeaderKeydownOn(i, k)

\* Pointer click on tab button b.
TabButtonClickOn(b) ==
  /\ b < tabButtonsWired
  /\ lastEvent' = Event("tabClick", NoKey)
  /\ TabApply(b, 1)
  /\ UNCHANGED accVars

TabButtonClick == \E b \in Tabs : TabButtonClickOn(b)

\* keydown of key k on tab button b.
TabButtonKeydownOn(b, k) ==
  /\ b < tabButtonsWired
  /\ lastEvent' = Event("tabKeydown", k)
  /\ TabApply(b, keydownClicks(k))
  /\ UNCHANGED accVars

TabButtonKeydown == \E b \in Tabs, k \in Keys : TabButtonKeydownOn(b, k)

(***************************************************************************)
(* Registration of the handlers at DOM ready (main.js initAccordion and    *)
(* initItineraryTabs).                                                     *)
(***************************************************************************)
TabWarning == "Tab elements not found"

\* Variant: initItineraryTabs tests the buttons only.
tabElementsMissing_buttons(buttons, panels) == buttons = 0

\* if (tabButtons.length === 0 || tabPanels.length === 0)
tabElementsMissing(buttons, panels) == buttons = 0 \/ panels = 0

\* initItineraryTabs: console.warn and return, or wire every button.
initItineraryTabsWired(buttons, panels) ==
  IF tabElementsMissing(buttons, panels) THEN 0 ELSE buttons

initItineraryTabsWarnings(buttons, panels) ==
  IF tabElementsMissing(buttons, panels) THEN {TabWarning} ELSE {}

\* initAccordion: accordionHeaders.forEach(...) wires every header found;
\* on an empty NodeList the loop body never runs.
initAccordionWired(headers) == headers

\* The DOM-ready handler: initAccordion(); initItineraryTabs().
DomReady ==
  /\ ~domReady
  /\ domReady' = TRUE
  /\ headersWired' = initAccordionWired(headersFound)
  /\ tabButtonsWired' = initItineraryTabsWired(tabButtonsFound, tabPanelsFound)
  /\ warnings' = warnings \cup initItineraryTabsWarnings(tabButtonsFound, tabPanelsFound)
  /\ lastEvent' = Event("domReady", NoKey)
  /\ threw' = FALSE
  /\ UNCHANGED << headersFound, tabButtonsFound, tabPanelsFound >>

\* The complete page after DOM ready: every header and tab button is wired.
Registered ==
  /\ domReady = TRUE
  /\ headersFound = NItems
  /\ tabButtonsFound = NTabs
  /\ tabPanelsFound = NTabs
  /\ headersWired = NItems
  /\ tabButtonsWired = NTabs
  /\ warnings = {}

\* Any page before DOM ready, also one without accordion or tab elements.
Loading ==
  /\ domReady = FALSE
  /\ headersFound \in 0 .. NItems
  /\ tabButtonsFound \in 0 .. NTabs
  /\ tabPanelsFound \in 0 .. NTabs
  /\ headersWired = 0
  /\ tabButtonsWired = 0
  /\ warnings = {}

\* The page as loaded: any 'active' / aria-expanded markup on the accordion,
\* no tab or one tab (button and its panel) marked active; one accordion,
\* every item of it has its header and every data-tab names its panel.
DisclosureInit ==
  /\ itemActive \in SUBSET Items
  /\ ariaExpanded \in [Items -> {"true", "false"}]
  /\ itemHasHeader = [i \in Items |-> TRUE]
  /\ itemAccordion = [i \in Items |-> 0]
  /\ closedAtLoad = (itemActive = {})
  /\ activations = << >>
  /\ dataTab = [b \in Tabs |-> b]
  /\ tabButtonActive \in { B \in SUBSET Tabs : Cardinality(B) <= 1 }
  /\ tabPanelActive = { dataTab[b] : b \in tabButtonActive }
  /\ tabWasActive = FALSE



(***************************************************************************)
(* ScrollAnimations (js/animations.js).                                    *)
(***************************************************************************)
Elems == 1 .. NElems
Cards == 0 .. (NCards - 1)
Undefined == 0 - 1

\* Visible fractions (percent) an IntersectionObserverEntry can carry.
Ratios == {0, 5, 15}

\* threshold: 0.15 passed by initAnimations, in percent.
InitThreshold == 15

\* animationDelay: 100 passed by initAnimations.
InitAnimationDelay == 100

\* Defaults of the constructor.
DefaultThreshold == 15
DefaultAnimationDelay == 100

\* Variant: the constructor without the trailing ...config (a passed 0 is
\* falsy and is replaced by the default).
configValue_or(passed, default) ==
  IF passed = Undefined \/ passed = 0 THEN default ELSE passed

\* this.config = { threshold: config.threshold || 0.15, ...,
\*                 animationDelay: config.animationDelay || 100, ...config }
\* The trailing spread writes every key the caller passed over the
\* defaulted value, so a passed 0 stays 0.
configValue(passed, default) ==
  IF passed = Undefined THEN default ELSE passed

Constructor(passed) ==
  [threshold |-> configValue(passed.threshold, DefaultThreshold),
   animationDelay |-> configValue(passed.animationDelay, DefaultAnimationDelay)]

\* Class added for data-animate="zoom": `animate-${animationType}`.
AnimateClass(type) == IF type = "zoom" THEN "animate-zoom" ELSE "animate-other"

\* '.animate-fade-in-up, .animate-fade-in, [data-animate]'
matchesSelector(cl, da) ==
  \/ "animate-fade-in-up" \in cl
  \/ "animate-fade-in" \in cl
  \/ da # ""

\* triggerAnimation(element): the resulting classList.
triggerAnimation(cl, da) ==
  LET c1 == IF "animate-fade-in-up" \in cl THEN cl \cup {"visible"} ELSE cl
  IN IF da # "" THEN c1 \cup {AnimateClass(da), "visible"} ELSE c1

\* Variant: handleIntersection without the animatedElements.has test.
shouldReveal_always(isIntersecting, animated, e) == isIntersecting

\* handleIntersection: the condition under which an entry reveals its target.
shouldReveal(isIntersecting, animated, e) ==
  isIntersecting /\ e \notin animated

\* handleAnimationEnd(event): the resulting classList and style.
animationEndClasses(cl, da) ==
  LET c1 == IF "animate-fade-in-up" \in cl
              THEN (cl \ {"animate-fade-in-up"}) \cup {"animation-complete"} ELSE cl
      c2 == IF "animate-fade-in" \in c1
              THEN (c1 \ {"animate-fade-in"}) \cup {"animation-complete"} ELSE c1
  IN IF da # "" THEN (c2 \ {AnimateClass(da)}) \cup {"animation-complete"} ELSE c2

animationEndStyle(cl, st) ==
  IF "animate-fade-in-up" \in cl \/ "animate-fade-in" \in cl
    THEN [opacity |-> "1", transform |-> "translateY(0)"]
    ELSE st

\* disableAnimations(): every element matching the selector is made visible.
disableAnimationsClasses(cls, das) ==
  [e \in Elems |-> IF matchesSelector(cls[e], das[e]) THEN cls[e] \cup {"visible"} ELSE cls[e]]

disableAnimationsStyle(cls, das, sts) ==
  [e \in Elems |-> IF matchesSelector(cls[e], das[e])
                     THEN [opacity |-> "1", transform |-> "none"] ELSE sts[e]]

\* Variant: observeElements() without the '.hero-section' test.
observeElements_all(cls, das, hero) ==
  { e \in Elems : matchesSelector(cls[e], das[e]) }

\* observeElements(): the targets handed to this.observer.observe.
observeElements(cls, das, hero) ==
  { e \in Elems : matchesSelector(cls[e], das[e]) /\ ~hero[e] }

\* Variant: init() ignores the reduced-motion preference.
initDisables_never(prm) == FALSE

\* init(): which branch runs.
initDisables(prm) == prm

\* Variant: destroy() calls this.observer.disconnect() without the null test.
destroyThrows_unguarded(obs) == obs = "null"

\* destroy(): if (this.observer) this.observer.disconnect();
destroyThrows(obs) == FALSE

destroyObserver(obs) == IF obs # "null" THEN "disconnected" ELSE obs

destroyObserved(obs, targets) == IF obs # "null" THEN {} ELSE targets

\* document.removeEventListener('animationend', this.handleAnimationEnd):
\* removes the listener that is this very function object.  init() registered
\* the arrow function (e) => this.handleAnimationEnd(e), a different object.
InitListener == "arrow"
destroyListenerArgument == "handleAnimationEnd"

removeEventListener(listeners, fn) == listeners \ {fn}

\* init()
Init_ ==
  /\ ~initCalled
  /\ initCalled' = TRUE
  /\ IF initDisables(prefersReducedMotion)
       THEN /\ classList' = disableAnimationsClasses(classList, dataAnimate)
            /\ style' = disableAnimationsStyle(classList, dataAnimate, style)
            /\ UNCHANGED << observer, observed, animationendListeners >>
       ELSE /\ observer' = "observing"
            /\ observed' = observeElements(classList, dataAnimate, inHero)
            /\ animationendListeners' = animationendListeners \cup {InitListener}
            /\ UNCHANGED << classList, style >>
  /\ lastEvent' = Event("init", NoKey)
  /\ threw' = FALSE
  /\ UNCHANGED << configArg, config, prefersReducedMotion, animatedElements,
                  dataAnimate, inHero, destroyCalls >>

\* The observer delivers an entry for an observed target to handleIntersection.
\* isIntersecting tells that target and root intersect at all; the ratio of
\* an entry that does not intersect is 0.  The handler reads isIntersecting
\* and target only.
HandleIntersectionOn(e, isIntersecting, ratio) ==
  /\ observer = "observing"
  /\ e \in observed
  /\ ~isIntersecting => ratio = 0
  /\ IF shouldReveal(isIntersecting, animatedElements, e)
       THEN /\ classList' = [classList EXCEPT ![e] = triggerAnimation(classList[e], dataAnimate[e])]
            /\ animatedElements' = animatedElements \cup {e}
       ELSE UNCHANGED << classList, animatedElements >>
  /\ lastEvent' = Event("intersection", NoKey)
  /\ threw' = FALSE
  /\ UNCHANGED << configArg, config, prefersReducedMotion, initCalled, observer,
                  observed, style, dataAnimate, inHero, animationendListeners,
                  destroyCalls >>

HandleIntersection ==
  \E e \in Elems, isIntersecting \in BOOLEAN, ratio \in Ratios :
    HandleIntersectionOn(e, isIntersecting, ratio)

\* An 'animationend' event of element e reaches the listener init() added.
HandleAnimationEnd ==
  \E e \in Elems :
    /\ InitListener \in animationendListeners
    /\ classList' = [classList EXCEPT ![e] = animationEndClasses(classList[e], dataAnimate[e])]
    /\ style' = [style EXCEPT ![e] = animationEndStyle(classList[e], style[e])]
    /\ lastEvent' = Event("animationend", NoKey)
    /\ threw' = FALSE
    /\ UNCHANGED << configArg, config, prefersReducedMotion, initCalled, observer,
                    observed, animatedElements, dataAnimate, inHero,
                    animationendListeners, destroyCalls >>

\* destroy()
Destroy ==
  /\ destroyCalls < MaxDestroy
  /\ destroyCalls' = destroyCalls + 1
  /\ threw' = destroyThrows(observer)
  /\ IF destroyThrows(observer)
       THEN UNCHANGED << observer, observed, animationendListeners >>
       ELSE /\ observer' = destroyObserver(observer)
            /\ observed' = destroyObserved(observer, observed)
            /\ animationendListeners' =
                 removeEventListener(animationendListeners, destroyListenerArgument)
  /\ lastEvent' = Event("destroy", NoKey)
  /\ UNCHANGED << configArg, config, prefersReducedMotion, initCalled,
                  animatedElements, classList, style, dataAnimate, inHero >>

(***************************************************************************)
(* applyStaggeredDelays and the formatting of style.animationDelay.        *)
(***************************************************************************)
Digit(d) == << "0", "1", "2", "3", "4", "5", "6", "7", "8", "9" >>[d + 1]

\* String(delay) for a non-negative integer, as a sequence of characters.
RECURSIVE NumberToString(_)
NumberToString(n) ==
  IF n < 10 THEN << Digit(n) >> ELSE NumberToString(n \div 10) \o << Digit(n % 10) >>

\* const delay = baseDelay + (index * this.config.animationDelay)
staggerDelay(baseDelay, index, animationDelay) ==
  baseDelay + (index * animationDelay)

\* element.style.animationDelay = `${delay}ms`
delayStyle(delay) == NumberToString(delay) \o << "m", "s" >>

\* applyStaggeredDelays(elements, baseDelay = 0)
baseDelayParameter(passed) == IF passed = Undefined THEN 0 ELSE passed

Bases == {Undefined, 0, 50}
Steps == {Undefined, 0, 1, 100}

ApplyStaggeredDelays ==
  \E n \in 0 .. NCards, passedBase \in Bases :
    /\ cardDelay' = [c \in Cards |->
         IF c < n
           THEN delayStyle(staggerDelay(baseDelayParameter(passedBase), c, config.animationDelay))
           ELSE cardDelay[c]]
    /\ lastStagger' = [n |-> n, base |-> passedBase]
    /\ lastEvent' = Event("applyStaggeredDelays", NoKey)
    /\ threw' = FALSE

(***************************************************************************)
(* debounce and throttle (js/utils.js).  Time is counted in units of which *)
(* Wait (Limit) make up the wait (limit) parameter; a timer runs when its  *)
(* time is up or later, never before.                                      *)
(***************************************************************************)
NoTimer == 0 - 1
NoArgs == 0
Args == 1 .. NArgs

\* Variant: 'later' never calls func.
laterCallsFunc_never(imm) == FALSE

\* later: if (!immediate) func.apply(context, args)
laterCallsFunc(imm) == ~imm

\* Variant: callNow ignores the pending timer.
callNow_always(imm, t) == imm

\* const callNow = immediate && !timeout
callNow(imm, t) == imm /\ t = NoTimer

\* Variant: clearTimeout leaves the timer in the list.
clearTimeout_noop(pending, handle) == pending

\* clearTimeout(timeout): removes the timer the handle names, if any.
clearTimeout(pending, handle) ==
  IF handle # NoTimer THEN pending - 1 ELSE pending

\* A call starts a burst when it is the first one or comes Wait or more
\* after the previous call.
startsBurst == calls = 0 \/ sinceCall >= Wait

\* A call of the debounced function with args a.
DebouncedCall ==
  \E a \in Args :
    /\ calls < MaxCalls
    /\ timeout' = Wait
    /\ pendingTimers' = clearTimeout(pendingTimers, timeout) + 1
    /\ sinceCall' = 0
    /\ bursts' = IF startsBurst THEN bursts + 1 ELSE bursts
    /\ laterArgs' = a
    /\ IF callNow(immediate, timeout)
         THEN /\ funcRuns' = funcRuns + 1
              /\ funcArgs' = a
              /\ sinceRun' = 0
         ELSE UNCHANGED << funcRuns, funcArgs, sinceRun >>
    /\ calls' = calls + 1
    /\ lastArgs' = a
    /\ lastEvent' = Event("debouncedCall", NoKey)
    /\ threw' = FALSE
    /\ UNCHANGED << immediate, inThrottle, lastFunc, lastFuncArgs, sinceLastRan >>

\* The timer of the debounced function runs 'later'.
DebounceTimer ==
  /\ timeout = 0
  /\ timeout' = NoTimer
  /\ pendingTimers' = pendingTimers - 1
  /\ IF laterCallsFunc(immediate)
       THEN /\ funcRuns' = funcRuns + 1
            /\ funcArgs' = laterArgs
            /\ sinceRun' = 0
       ELSE UNCHANGED << funcRuns, funcArgs, sinceRun >>
  /\ lastEvent' = Event("debounceTimer", NoKey)
  /\ threw' = FALSE
  /\ UNCHANGED << immediate, laterArgs, inThrottle, lastFunc, lastFuncArgs,
                  sinceLastRan, calls, lastArgs, sinceCall, bursts >>

\* Variant: the first call does not set inThrottle.
setsInThrottle_never == FALSE

\* inThrottle = true
setsInThrottle == TRUE

\* Math.max(limit - (Date.now() - lastRan), 0)
throttleDelay(elapsed) == IF Limit - elapsed > 0 THEN Limit - elapsed ELSE 0

\* if ((Date.now() - lastRan) >= limit)
throttleTimerRuns(elapsed) == elapsed >= Limit

\* A call of the throttled function with args a.
ThrottledCall ==
  \E a \in Args :
    /\ calls < MaxCalls
    /\ IF ~inThrottle
         THEN /\ funcRuns' = funcRuns + 1
              /\ funcArgs' = a
              /\ sinceRun' = 0
              /\ sinceLastRan' = 0
              /\ inThrottle' = setsInThrottle
              /\ UNCHANGED << lastFunc, lastFuncArgs >>
         ELSE /\ lastFunc' = throttleDelay(sinceLastRan)
              /\ lastFuncArgs' = a
              /\ UNCHANGED << funcRuns, funcArgs, sinceRun, sinceLastRan, inThrottle >>
    /\ calls' = calls + 1
    /\ lastArgs' = a
    /\ lastEvent' = Event("throttledCall", NoKey)
    /\ threw' = FALSE
    /\ UNCHANGED << immediate, timeout, laterArgs, pendingTimers, sinceCall,
                    bursts >>

\* The timer of the throttled function runs its callback.
ThrottleTimer ==
  /\ lastFunc = 0
  /\ lastFunc' = NoTimer
  /\ IF throttleTimerRuns(sinceLastRan)
       THEN /\ funcRuns' = funcRuns + 1
            /\ funcArgs' = lastFuncArgs
            /\ sinceRun' = 0
            /\ sinceLastRan' = 0
       ELSE UNCHANGED << funcRuns, funcArgs, sinceRun, sinceLastRan >>
  /\ lastEvent' = Event("throttleTimer", NoKey)
  /\ threw' = FALSE
  /\ UNCHANGED << immediate, timeout, laterArgs, inThrottle, lastFuncArgs,
                  calls, lastArgs, pendingTimers, sinceCall, bursts >>

\* One unit of time passes.
CountDown(t) == IF t > 0 THEN t - 1 ELSE t
CountUp(t) == IF t < Limit THEN t + 1 ELSE t
CountUpTo(t, max) == IF t < max THEN t + 1 ELSE t

Tick ==
  /\ timeout > 0 \/ lastFunc > 0 \/ (funcRuns > 0 /\ sinceRun < Limit)
  /\ timeout' = CountDown(timeout)
  /\ lastFunc' = CountDown(lastFunc)
  /\ sinceLastRan' = IF inThrottle THEN CountUp(sinceLastRan) ELSE sinceLastRan
  /\ sinceRun' = IF funcRuns > 0 THEN CountUp(sinceRun) ELSE sinceRun
  /\ sinceCall' = IF bursts > 0 THEN CountUpTo(sinceCall, Wait) ELSE sinceCall
  /\ lastEvent' = Event("tick", NoKey)
  /\ threw' = FALSE
  /\ UNCHANGED << immediate, laterArgs, inThrottle, lastFuncArgs, calls,
                  lastArgs, funcRuns, funcArgs, pendingTimers, bursts >>

\* Date.now() is the system clock, which the system may set forward or
\* back while the timers keep running: the difference to lastRan changes.
ClockAdjust ==
  /\ inThrottle
  /\ \E e \in 0 .. Limit :
       /\ e # sinceLastRan
       /\ sinceLastRan' = e
       /\ sinceRun' = e
  /\ lastEvent' = Event("clockAdjust", NoKey)
  /\ threw' = FALSE
  /\ UNCHANGED << immediate, timeout, laterArgs, inThrottle, lastFunc,
                  lastFuncArgs, calls, lastArgs, funcRuns, funcArgs,
                  pendingTimers, sinceCall, bursts >>

\* Fresh wrappers: debounce(func, wait, imm) and throttle(func, limit).
TimersInit(imm) ==
  /\ immediate = imm
  /\ timeout = NoTimer
  /\ laterArgs = NoArgs
  /\ inThrottle = FALSE
  /\ lastFunc = NoTimer
  /\ lastFuncArgs = NoArgs
  /\ sinceLastRan = 0
  /\ calls = 0
  /\ lastArgs = NoArgs
  /\ funcRuns = 0
  /\ funcArgs = NoArgs
  /\ sinceRun = 0
  /\ pendingTimers = 0
  /\ sinceCall = 0
  /\ bursts = 0

(***************************************************************************)
(* Background audio (js/main.js).                                          *)
(***************************************************************************)
\* Timers of main.js, in units of 500 ms.
AutoplayDelay == 2

AudioState ==
  [audio |-> backgroundAudio, init |-> audioInitialized, paused |-> audioPaused,
   log |-> audioLog, plays |-> playRequests, created |-> audiosCreated]

CountPlay(n) == IF n < MaxPlays THEN n + 1 ELSE n

\* Variant: the constructed handle is stored, audioInitialized is not set.
initBackgroundAudio_unflagged(s, supported) ==
  IF s.init THEN s
  ELSE IF supported
    THEN [audio |-> "audio", init |-> FALSE, paused |-> TRUE,
          log |-> "Background audio initialized", plays |-> s.plays,
          created |-> CountPlay(s.created)]
    ELSE [s EXCEPT !.log = "Failed to initialize background audio"]

\* initBackgroundAudio(): new Audio(...) inside try/catch.  A new Audio
\* object starts paused.
initBackgroundAudio(s, supported) ==
  IF s.init THEN s
  ELSE IF supported
    THEN [audio |-> "audio", init |-> TRUE, paused |-> TRUE,
          log |-> "Background audio initialized", plays |-> s.plays,
          created |-> CountPlay(s.created)]
    ELSE [s EXCEPT !.log = "Failed to initialize background audio"]

\* playBackgroundAudio(): initialise if needed, then backgroundAudio.play();
\* the browser starts playback or rejects the promise (autoplay policy).
playBackgroundAudio(s, supported, allowed) ==
  LET s1 == IF s.audio = "null" \/ ~s.init
              THEN initBackgroundAudio(s, supported) ELSE s
  IN IF s1.audio = "null" THEN s1
     ELSE IF allowed
       THEN [s1 EXCEPT !.paused = FALSE, !.plays = CountPlay(s1.plays),
                       !.log = "Background audio started playing"]
       ELSE [s1 EXCEPT !.plays = CountPlay(s1.plays),
                       !.log = "Could not play background audio"]

\* pauseBackgroundAudio()
pauseBackgroundAudio(s) ==
  IF s.audio # "null" /\ ~s.paused
    THEN [s EXCEPT !.paused = TRUE, !.log = "Background audio paused"]
    ELSE s

SetAudio(s) ==
  /\ backgroundAudio' = s.audio
  /\ audioInitialized' = s.init
  /\ audioPaused' = s.paused
  /\ audioLog' = s.log
  /\ playRequests' = s.plays
  /\ audiosCreated' = s.created

\* initApp() calls setupAutoplayAudio().
SetupAutoplayAudio ==
  /\ ~visibilityListener
  /\ SetAudio(initBackgroundAudio(AudioState, audioSupported))
  /\ autoplayTimer' = AutoplayDelay
  /\ visibilityListener' = TRUE
  /\ interactionListeners' = TRUE
  /\ lastEvent' = Event("setupAutoplayAudio", NoKey)
  /\ threw' = FALSE
  /\ UNCHANGED << audioSupported, docHidden, hiddenHandled >>

\* setTimeout(() => { playBackgroundAudio(); }, 1000)
AutoplayTimer ==
  /\ autoplayTimer = 0
  /\ autoplayTimer' = NoTimer
  /\ \E allowed \in BOOLEAN :
       SetAudio(playBackgroundAudio(AudioState, audioSupported, allowed))
  /\ lastEvent' = Event("autoplayTimer", NoKey)
  /\ threw' = FALSE
  /\ UNCHANGED << audioSupported, docHidden, visibilityListener,
                  interactionListeners, hiddenHandled >>

\* 500 ms pass while the autoplay timer is pending.
AudioTick ==
  /\ autoplayTimer > 0
  /\ autoplayTimer' = autoplayTimer - 1
  /\ lastEvent' = Event("tick", NoKey)
  /\ threw' = FALSE
  /\ UNCHANGED << audioSupported, backgroundAudio, audiosCreated, audioInitialized,
                  audioPaused, docHidden, visibilityListener,
                  interactionListeners, audioLog, hiddenHandled, playRequests >>

\* The tab is hidden or shown; the 'visibilitychange' listener, once it is
\* registered, handles the event.
VisibilityChange ==
  /\ docHidden' = ~docHidden
  /\ hiddenHandled' = (visibilityListener /\ docHidden')
  /\ IF ~visibilityListener
       THEN UNCHANGED << backgroundAudio, audiosCreated, audioInitialized, audioPaused, audioLog,
                         playRequests >>
       ELSE IF docHidden'
         THEN SetAudio(pauseBackgroundAudio(AudioState))
         ELSE IF audioInitialized /\ backgroundAudio # "null"
           THEN \E allowed \in BOOLEAN :
                  SetAudio(playBackgroundAudio(AudioState, audioSupported, allowed))
           ELSE UNCHANGED << backgroundAudio, audiosCreated, audioInitialized, audioPaused, audioLog,
                         playRequests >>
  /\ lastEvent' = Event("visibilitychange", NoKey)
  /\ threw' = FALSE
  /\ UNCHANGED << audioSupported, autoplayTimer, visibilityListener,
                  interactionListeners >>

\* First click or touchstart on the visible page: enableAudioOnInteraction.
InteractionEvents == {"click", "touchstart"}

Interaction ==
  \E type \in InteractionEvents :
    /\ interactionListeners
    /\ ~docHidden
    /\ IF backgroundAudio # "null" /\ audioPaused
         THEN \E allowed \in BOOLEAN :
                SetAudio(playBackgroundAudio(AudioState, audioSupported, allowed))
         ELSE UNCHANGED << backgroundAudio, audiosCreated, audioInitialized, audioPaused, audioLog,
                         playRequests >>
    /\ interactionListeners' = FALSE
    /\ lastEvent' = Event(type, NoKey)
    /\ threw' = FALSE
    /\ UNCHANGED << audioSupported, docHidden, autoplayTimer, visibilityListener,
                    hiddenHandled >>

\* The visible page before initApp().
AudioInit ==
  /\ backgroundAudio = "null"
  /\ audioInitialized = FALSE
  /\ audioPaused = TRUE
  /\ audioLog = ""
  /\ hiddenHandled = FALSE
  /\ docHidden = FALSE
  /\ autoplayTimer = NoTimer
  /\ playRequests = 0
  /\ audiosCreated = 0
  /\ visibilityListener = FALSE
  /\ interactionListeners = FALSE

(***************************************************************************)
(* Welcome popup and background audio of the popup variant of main.js.     *)
(* Its initApp() calls initWelcomePopup() and then setupAutoplayAudio(),   *)
(* which sets no autoplay timer and no interaction listeners.              *)
(***************************************************************************)

\* if (!popupOverlay || !enterButton) { console.warn(...); return; }
popupElementsFound(overlay, button) == overlay /\ button

\* initApp(): initWelcomePopup(); setupAutoplayAudio().
InitAppPopup ==
  /\ ~visibilityListener
  /\ IF popupElementsFound(popupOverlay, enterButton)
       THEN popupDisplay' = "flex" /\ popupWired' = TRUE
       ELSE UNCHANGED << popupDisplay, popupWired >>
  /\ SetAudio(initBackgroundAudio(AudioState, audioSupported))
  /\ visibilityListener' = TRUE
  /\ lastEvent' = Event("initApp", NoKey)
  /\ threw' = FALSE
  /\ UNCHANGED << popupOverlay, enterButton, popupOpacity, closeTimers,
                  audioSupported, docHidden, autoplayTimer,
                  interactionListeners, hiddenHandled >>

\* The click listener of the Enter button: fade out, then close in 500 ms.
enterClick ==
  /\ popupOpacity' = "0"
  /\ closeTimers' = closeTimers + 1
  /\ threw' = FALSE
  /\ UNCHANGED << popupOverlay, enterButton, popupWired, popupDisplay, audioVars >>

\* Pointer click on the Enter button, which is on screen while the overlay
\* is displayed.
EnterButtonClick ==
  /\ popupWired
  /\ ~docHidden
  /\ popupDisplay = "flex"
  /\ closeTimers < MaxCloseTimers
  /\ lastEvent' = Event("enterClick", NoKey)
  /\ enterClick

\* Variant: Escape clicks the button whatever the overlay shows.
escapeCloses_always(k, display) == k = "Escape"

\* if (e.key === 'Escape' && popupOverlay.style.display === 'flex')
escapeCloses(k, display) == k = "Escape" /\ display = "flex"

\* keydown on the document.
DocumentKeydown ==
  \E k \in Keys :
    /\ popupWired
    /\ ~docHidden
    /\ closeTimers < MaxCloseTimers
    /\ lastEvent' = Event("documentKeydown", k)
    /\ IF escapeCloses(k, popupDisplay)
         THEN enterClick
         ELSE threw' = FALSE /\ UNCHANGED << popupVars, audioVars >>

\* Variant: the close timer leaves the overlay displayed.
closeTimerDisplay_keep(display) == display

\* popupOverlay.style.display = 'none'
closeTimerDisplay(display) == "none"

\* setTimeout(() => { popupOverlay.style.display = 'none';
\*                    playBackgroundAudio(); }, 500)
CloseTimer ==
  /\ closeTimers > 0
  /\ closeTimers' = closeTimers - 1
  /\ \E allowed \in BOOLEAN :
       SetAudio(playBackgroundAudio(AudioState, audioSupported, allowed))
  /\ popupDisplay' = closeTimerDisplay(popupDisplay)
  /\ lastEvent' = Event("closeTimer", NoKey)
  /\ threw' = FALSE
  /\ UNCHANGED << popupOverlay, enterButton, popupWired, popupOpacity,
                  audioSupported, docHidden, autoplayTimer, visibilityListener,
                  interactionListeners, hiddenHandled >>

\* Variant: the listener resumes whatever the overlay shows.
popupAllowsResume_always(overlay, display) == TRUE

\* const popup = document.getElementById('popup-overlay');
\* if (!popup || popup.style.display === 'none')
popupAllowsResume(overlay, display) == ~overlay \/ display = "none"

\* The tab is hidden or shown; the 'visibilitychange' listener of the popup
\* variant, once it is registered, handles the event.
VisibilityChangePopup ==
  /\ docHidden' = ~docHidden
  /\ hiddenHandled' = (visibilityListener /\ docHidden')
  /\ IF ~visibilityListener
       THEN UNCHANGED << backgroundAudio, audiosCreated, audioInitialized, audioPaused, audioLog,
                         playRequests >>
       ELSE IF docHidden'
         THEN SetAudio(pauseBackgroundAudio(AudioState))
         ELSE IF /\ audioInitialized /\ backgroundAudio # "null"
                 /\ popupAllowsResume(popupOverlay, popupDisplay)
           THEN \E allowed \in BOOLEAN :
                  SetAudio(playBackgroundAudio(AudioState, audioSupported, allowed))
           ELSE UNCHANGED << backgroundAudio, audiosCreated, audioInitialized, audioPaused, audioLog,
                         playRequests >>
  /\ lastEvent' = Event("visibilitychange", NoKey)
  /\ threw' = FALSE
  /\ UNCHANGED << audioSupported, autoplayTimer, visibilityListener,
                  interactionListeners, popupVars >>

\* A page without the popup markup, or one on which it is not used.
PopupIdle ==
  /\ popupOverlay = FALSE
  /\ enterButton = FALSE
  /\ popupWired = FALSE
  /\ popupDisplay = ""
  /\ popupOpacity = ""
  /\ closeTimers = 0

(***************************************************************************)
(* Contact form (js/forms.js).                                             *)
(***************************************************************************)
Fields == {"name", "email", "message"}

\* Object.keys(this.fields): the fields in insertion order.
FieldOrder == << "name", "email", "message" >>

\* Values a user can type: nothing, blanks, a short e-mail address and a
\* sentence.
Values == {"", "  ", "a@b.co", "Hello there, see you"}

\* Characters of the generated texts: a letter, the two characters the
\* e-mail pattern names, and white space.
Alphabet == {"a", "@", ".", " "}

\* Longer texts, around the message length limit.
LongTexts == {"Hello there, see you", "aaaaaaaaa", "aaaaaaaaaa",
              "  aaaaaaaaa ", "aaaa@aaa.a"}

RECURSIVE StringsUpTo(_)
StringsUpTo(n) ==
  IF n = 0 THEN {""}
  ELSE LET shorter == StringsUpTo(n - 1)
       IN shorter \cup {x \o c : x \in shorter, c \in Alphabet}

\* Every text of at most MaxLen characters, and the longer ones.
Texts == StringsUpTo(MaxLen) \cup LongTexts

\* v[k], as a string of one character
charAt(v, k) == SubSeq(v, k, k)

\* value.trim(): the white space at both ends removed.
RECURSIVE trim(_)
trim(v) ==
  IF v = "" THEN ""
  ELSE IF charAt(v, 1) = " " THEN trim(SubSeq(v, 2, Len(v)))
  ELSE IF charAt(v, Len(v)) = " " THEN trim(SubSeq(v, 1, Len(v) - 1))
  ELSE v

\* value.length
length(v) == Len(v)

\* [^\s@]+ matches v[a..b]
matchesPlain(v, a, b) ==
  /\ a <= b
  /\ \A k \in a .. b : charAt(v, k) \notin {" ", "@"}

\* this.emailRegex.test(email), /^[^\s@]+@[^\s@]+\.[^\s@]+$/
validateEmail(v) ==
  \E i \in 1 .. Len(v), j \in 1 .. Len(v) :
    /\ charAt(v, i) = "@"
    /\ charAt(v, j) = "."
    /\ matchesPlain(v, 1, i - 1)
    /\ matchesPlain(v, i + 1, j - 1)
    /\ matchesPlain(v, j + 1, Len(v))

MinMessageLength == 10

Required == "This field is required"
InvalidEmail == "Please enter a valid email address"
TooShort == "Message must be at least 10 characters"

\* showFieldError(fieldName, message): what it leaves on the field.
showFieldError(message) ==
  [class |-> TRUE, aria |-> "true", text |-> message]

\* clearFieldError(fieldName): what it leaves on the field.
clearFieldError == [class |-> FALSE, aria |-> "", text |-> ""]

\* Variant: the value is validated as typed, without trimming.
validateFieldOutcome_untrimmed(f, v) ==
  LET value == v
  IN IF value = ""
       THEN [returns |-> FALSE, marker |-> showFieldError(Required)]
     ELSE IF f = "email" /\ ~validateEmail(value)
       THEN [returns |-> FALSE, marker |-> showFieldError(InvalidEmail)]
     ELSE IF f = "message" /\ length(value) < MinMessageLength
       THEN [returns |-> FALSE, marker |-> showFieldError(TooShort)]
     ELSE [returns |-> TRUE, marker |-> clearFieldError]

\* validateField(fieldName) on a field holding v: what it returns and
\* what it leaves on the field.
validateFieldOutcome(f, v) ==
  LET value == trim(v)
  IN IF value = ""
       THEN [returns |-> FALSE, marker |-> showFieldError(Required)]
     ELSE IF f = "email" /\ ~validateEmail(value)
       THEN [returns |-> FALSE, marker |-> showFieldError(InvalidEmail)]
     ELSE IF f = "message" /\ length(value) < MinMessageLength
       THEN [returns |-> FALSE, marker |-> showFieldError(TooShort)]
     ELSE [returns |-> TRUE, marker |-> clearFieldError]

\* validateField(fieldName): the text it leaves in the error element
\* ('' when it clears the error and returns true).
validateFieldError(f, v) == validateFieldOutcome(f, v).marker.text

validateField(f, v) == validateFieldOutcome(f, v).returns

\* Variant: validation stops at the first invalid field.
validateAllErrors_first(values) ==
  [f \in Fields |->
     IF \E i \in 1 .. Len(FieldOrder) :
          /\ FieldOrder[i] = f
          /\ \A j \in 1 .. (i - 1) : validateField(FieldOrder[j], values[FieldOrder[j]])
       THEN validateFieldError(f, values[f])
       ELSE ""]

\* validateAllFields(): forEach field validateField; the error elements
\* it leaves.
validateAllErrors(values) ==
  [f \in Fields |-> validateFieldError(f, values[f])]

\* validateAllFields(): its result.
validateAllFields(values) == \A f \in Fields : validateField(f, values[f])

NoErrors == [f \in Fields |-> ""]

\* form.reset(): every field back to its default value.
DefaultValues == [f \in Fields |-> ""]

NoSubmission == [f \in Fields |-> ""]

\* The user types in field f; the 'input' listener clears a shown error.
FieldInput ==
  \E f \in Fields, v \in Values :
    /\ v # fieldValue[f]
    /\ fieldValue' = [fieldValue EXCEPT ![f] = v]
    /\ IF fieldClassError[f]
         THEN /\ fieldError' = [fieldError EXCEPT ![f] = clearFieldError.text]
              /\ fieldClassError' = [fieldClassError EXCEPT ![f] = clearFieldError.class]
              /\ fieldAriaInvalid' = [fieldAriaInvalid EXCEPT ![f] = clearFieldError.aria]
         ELSE UNCHANGED << fieldError, fieldClassError, fieldAriaInvalid >>
    /\ lastEvent' = Event("input", NoKey)
    /\ threw' = FALSE
    /\ UNCHANGED << submitLoading, submitDisabled, statusText, statusClass,
                    statusRole, requestPending, submissions, outcomes,
                    submittedValues >>

\* Field f loses the focus: validateField(f).
FieldBlurOf(f) ==
  LET marker == validateFieldOutcome(f, fieldValue[f]).marker
  IN /\ fieldError' = [fieldError EXCEPT ![f] = marker.text]
     /\ fieldClassError' = [fieldClassError EXCEPT ![f] = marker.class]
     /\ fieldAriaInvalid' = [fieldAriaInvalid EXCEPT ![f] = marker.aria]
     /\ lastEvent' = Event("blur", NoKey)
     /\ threw' = FALSE
     /\ UNCHANGED << fieldValue, submitLoading, submitDisabled, statusText,
                     statusClass, statusRole, requestPending, submissions,
                     outcomes, submittedValues >>

FieldBlur == \E f \in Fields : FieldBlurOf(f)

\* The 'submit' event of the form, which the browser does not fire while
\* the submit button is disabled: handleSubmit up to its await.
FormSubmit ==
  /\ ~submitDisabled
  /\ validateAllFields(fieldValue) => submissions < MaxSubmits
  /\ fieldError' = validateAllErrors(fieldValue)
  /\ fieldClassError' =
       [f \in Fields |-> validateFieldOutcome(f, fieldValue[f]).marker.class]
  /\ fieldAriaInvalid' =
       [f \in Fields |-> validateFieldOutcome(f, fieldValue[f]).marker.aria]
  /\ IF ~validateAllFields(fieldValue)
       THEN UNCHANGED << submitLoading, submitDisabled, statusText, statusClass,
                         requestPending, submissions, submittedValues >>
       ELSE /\ submitLoading' = TRUE
            /\ submitDisabled' = TRUE
            /\ statusText' = ""
            /\ statusClass' = "form-status"
            /\ requestPending' = TRUE
            /\ submissions' = submissions + 1
            /\ submittedValues' = fieldValue
  /\ lastEvent' = Event("submit", NoKey)
  /\ threw' = FALSE
  /\ UNCHANGED << fieldValue, statusRole, outcomes >>

SuccessText == "Thank you! Your message has been sent successfully."
ErrorText == "Unable to send message. Please try again later."

\* Variant: the fields are reset after a failure too.
settledValues_reset(ok, values) == DefaultValues

\* try: this.reset() after showSuccess; catch: the fields are left alone.
settledValues(ok, values) == IF ok THEN DefaultValues ELSE values

\* Variant: the loading state is cleared on success only.
settledLoading_onSuccess(ok) == ~ok

\* finally: this.setLoadingState(false)
settledLoading(ok) == FALSE

\* The 1500 ms timer of submitForm resolves or rejects the promise and
\* handleSubmit runs on from its await.
RequestSettles ==
  /\ requestPending
  /\ \E ok \in BOOLEAN :
       /\ statusText' = IF ok THEN SuccessText ELSE ErrorText
       /\ statusClass' = IF ok THEN "form-status success" ELSE "form-status error"
       /\ statusRole' = IF ok THEN "status" ELSE "alert"
       /\ fieldValue' = settledValues(ok, fieldValue)
       /\ fieldError' = IF ok THEN NoErrors ELSE fieldError
       /\ fieldClassError' =
            IF ok THEN [f \in Fields |-> clearFieldError.class] ELSE fieldClassError
       /\ fieldAriaInvalid' =
            IF ok THEN [f \in Fields |-> clearFieldError.aria] ELSE fieldAriaInvalid
       /\ submitLoading' = settledLoading(ok)
       /\ submitDisabled' = settledLoading(ok)
  /\ requestPending' = FALSE
  /\ outcomes' = outcomes + 1
  /\ submittedValues' = NoSubmission
  /\ lastEvent' = Event("submitSettled", NoKey)
  /\ threw' = FALSE
  /\ UNCHANGED submissions

\* new ContactForm(form): the form as the page loads it.
\* The form after construction, its fields holding values.
FormFresh(values) ==
  /\ fieldValue = values
  /\ fieldError = NoErrors
  /\ fieldClassError = [f \in Fields |-> FALSE]
  /\ fieldAriaInvalid = [f \in Fields |-> ""]
  /\ submitLoading = FALSE
  /\ submitDisabled = FALSE
  /\ statusText = ""
  /\ statusClass = "form-status"
  /\ statusRole = ""
  /\ requestPending = FALSE
  /\ submissions = 0
  /\ outcomes = 0
  /\ submittedValues = NoSubmission

FormInit == FormFresh(DefaultValues)

(***************************************************************************)
(* Navigation (js/navigation.js).                                          *)
(***************************************************************************)
Links == 1 .. NLinks

\* Scroll positions of the page.
Positions == {0, 50, 51, 400}

\* this.scrollThreshold = 50
ScrollThreshold == 50

\* Layout: this.nav.offsetHeight, section.offsetTop and section.offsetHeight
\* of the section of link l; the sections follow each other down the page.
navOffsetHeight == 60
sectionOffsetTop(l) == (l - 1) * 300
sectionOffsetHeight(l) == 300

MenuState ==
  [open |-> isMenuOpen, cls |-> menuOpenClass, aria |-> toggleAria,
   overflow |-> bodyOverflow]

\* Variant: the class is added, never removed.
toggleOpenClass_add(has) == TRUE

\* this.menu.classList.toggle('open')
toggleOpenClass(has) == ~has

\* toggleMobileMenu()
toggleMobileMenu(m) ==
  [open |-> ~m.open,
   aria |-> IF ~m.open THEN "true" ELSE "false",
   cls |-> toggleOpenClass(m.cls),
   overflow |-> IF ~m.open THEN "hidden" ELSE ""]

\* Variant: a click outside the navigation toggles the menu in any state.
outsideCloses_any(open, inside) == ~inside

\* if (this.isMenuOpen && !this.nav.contains(e.target))
outsideCloses(open, inside) == open /\ ~inside

\* The click listener of the document, registered with the toggle.
documentClick(m, inside) ==
  IF navToggle /\ outsideCloses(m.open, inside) THEN toggleMobileMenu(m) ELSE m

SetMenu(m) ==
  /\ isMenuOpen' = m.open
  /\ menuOpenClass' = m.cls
  /\ toggleAria' = m.aria
  /\ bodyOverflow' = m.overflow

navRest == << navToggle, linkTarget, ticking, rafPending, navScrolled,
              activeLinks, scrollSeen, pageYOffset >>

\* Click on the toggle, which is inside the navigation.
NavToggleClick ==
  /\ navToggle
  /\ SetMenu(documentClick(toggleMobileMenu(MenuState), TRUE))
  /\ lastEvent' = Event("navToggleClick", NoKey)
  /\ threw' = FALSE
  /\ UNCHANGED navRest

\* Click on link l of the navigation: scroll to its section and close the
\* menu; the scrolling itself arrives as scroll events.
NavLinkClick ==
  \E l \in Links :
    /\ SetMenu(documentClick(IF linkTarget[l] /\ isMenuOpen
                               THEN toggleMobileMenu(MenuState)
                               ELSE MenuState, TRUE))
    /\ lastEvent' = Event("navLinkClick", NoKey)
    /\ threw' = FALSE
    /\ UNCHANGED navRest

\* Click anywhere outside the navigation.
OutsideClick ==
  /\ SetMenu(documentClick(MenuState, FALSE))
  /\ lastEvent' = Event("outsideClick", NoKey)
  /\ threw' = FALSE
  /\ UNCHANGED navRest

\* keydown on the document: Escape closes the open menu.
NavKeydown ==
  \E k \in Keys :
    /\ SetMenu(IF navToggle /\ k = "Escape" /\ isMenuOpen
                 THEN toggleMobileMenu(MenuState) ELSE MenuState)
    /\ lastEvent' = Event("navKeydown", k)
    /\ threw' = FALSE
    /\ UNCHANGED navRest

\* Variant: every scroll event requests an animation frame.
requestsFrame_always(t) == TRUE

\* if (!ticking)
requestsFrame(t) == ~t

\* The page scrolls to position p: the 'scroll' listener of the navigation.
NavScroll ==
  \E p \in Positions :
    /\ p # pageYOffset
    /\ pageYOffset' = p
    /\ IF requestsFrame(ticking)
         THEN rafPending' = rafPending + 1 /\ ticking' = TRUE
         ELSE UNCHANGED << rafPending, ticking >>
    /\ scrollSeen' = TRUE
    /\ lastEvent' = Event("scroll", NoKey)
    /\ threw' = FALSE
    /\ UNCHANGED << navToggle, linkTarget, isMenuOpen, menuOpenClass,
                    toggleAria, bodyOverflow, navScrolled, activeLinks >>

\* handleScroll: if (scrollPosition > this.scrollThreshold)
scrolledClass(pos) == pos > ScrollThreshold

\* updateActiveLink(): the links of the last section the position is in.
inSection(l, pos) ==
  LET sectionTop == sectionOffsetTop(l) - navOffsetHeight - 100
      sectionBottom == sectionTop + sectionOffsetHeight(l)
  IN linkTarget[l] /\ pos >= sectionTop /\ pos < sectionBottom

updateActiveLink(pos) ==
  { l \in Links : inSection(l, pos) /\ \A k \in Links : inSection(k, pos) => k <= l }

\* The animation-frame callback: handleScroll(); ticking = false.
AnimationFrame ==
  /\ rafPending > 0
  /\ rafPending' = rafPending - 1
  /\ navScrolled' = scrolledClass(pageYOffset)
  /\ activeLinks' = updateActiveLink(pageYOffset)
  /\ ticking' = FALSE
  /\ lastEvent' = Event("animationFrame", NoKey)
  /\ threw' = FALSE
  /\ UNCHANGED << navToggle, linkTarget, isMenuOpen, menuOpenClass,
                  toggleAria, bodyOverflow, scrollSeen, pageYOffset >>

\* new Navigation(element) on a page at the top, with the menu closed.
NavInit ==
  /\ pageYOffset = 0
  /\ isMenuOpen = FALSE
  /\ menuOpenClass = FALSE
  /\ toggleAria = "false"
  /\ bodyOverflow = ""
  /\ ticking = FALSE
  /\ rafPending = 0
  /\ navScrolled = FALSE
  /\ activeLinks = updateActiveLink(0)
  /\ scrollSeen = FALSE

\* A page whose navigation is complete and is left alone.
NavIdle ==
  /\ navToggle = TRUE
  /\ linkTarget = [l \in Links |-> TRUE]
  /\ NavInit

(***************************************************************************)
(* Scroll indicator (js/main.js, initScrollIndicator).                     *)
(***************************************************************************)
\* Window widths: two phones and two wider screens.
Widths == {375, 767, 768, 1024}

\* const isMobile = window.innerWidth <= 767
isMobile(w) == w <= 767

\* Variant: handleScroll hides the indicator at any scroll position.
scrollHides_any(scrolled, pos) == ~scrolled

\* handleScroll: if (!hasScrolled && window.pageYOffset > 50)
scrollHides(scrolled, pos) == ~scrolled /\ pos > 50

IndicatorState ==
  [scrolled |-> hasScrolled, hidden |-> indicatorHidden,
   display |-> indicatorDisplay, listener |-> scrollListener]

\* handleScroll() at scroll position pos
indicatorHandleScroll(i, pos) ==
  IF scrollHides(i.scrolled, pos)
    THEN [i EXCEPT !.scrolled = TRUE, !.hidden = TRUE, !.listener = FALSE]
    ELSE i

\* Variant: checkMobile ignores hasScrolled.
showsIndicator_mobile(w, scrolled) == isMobile(w)

\* checkMobile: if (isMobile && !hasScrolled)
showsIndicator(w, scrolled) == isMobile(w) /\ ~scrolled

\* checkMobile() at window width w
checkMobile(i, w) ==
  IF showsIndicator(w, i.scrolled)
    THEN [i EXCEPT !.display = "block", !.listener = TRUE]
    ELSE [i EXCEPT !.display = "none", !.listener = FALSE]

SetIndicator(i) ==
  /\ hasScrolled' = i.scrolled
  /\ indicatorHidden' = i.hidden
  /\ indicatorDisplay' = i.display
  /\ scrollListener' = i.listener

\* The window is resized to width w: checkMobile.
IndicatorResize ==
  \E w \in Widths :
    /\ w # innerWidth
    /\ innerWidth' = w
    /\ IF scrollIndicator
         THEN SetIndicator(checkMobile(IndicatorState, w))
         ELSE UNCHANGED << hasScrolled, indicatorHidden, indicatorDisplay,
                           scrollListener >>
    /\ lastEvent' = Event("resize", NoKey)
    /\ threw' = FALSE
    /\ UNCHANGED << pageYOffset, scrollIndicator, touchListener, touchTimer >>

\* The page scrolls to position p: handleScroll, while it is a listener.
IndicatorScroll ==
  \E p \in Positions :
    /\ p # pageYOffset
    /\ pageYOffset' = p
    /\ IF scrollListener
         THEN SetIndicator(indicatorHandleScroll(IndicatorState, p))
         ELSE UNCHANGED << hasScrolled, indicatorHidden, indicatorDisplay,
                           scrollListener >>
    /\ lastEvent' = Event("scroll", NoKey)
    /\ threw' = FALSE
    /\ UNCHANGED << innerWidth, scrollIndicator, touchListener, touchTimer >>

\* A touch on a touch screen; the listener is registered with once: true.
\* if (!hasScrolled) setTimeout(handleScroll, 100)
IndicatorTouchStart ==
  /\ touchListener' = FALSE
  /\ touchTimer' = IF touchListener /\ ~hasScrolled THEN TRUE ELSE touchTimer
  /\ lastEvent' = Event("touchstart", NoKey)
  /\ threw' = FALSE
  /\ UNCHANGED << pageYOffset, innerWidth, scrollIndicator, hasScrolled,
                  indicatorHidden, indicatorDisplay, scrollListener >>

\* The 100 ms timer of the touch runs handleScroll.
IndicatorTouchTimer ==
  /\ touchTimer
  /\ touchTimer' = FALSE
  /\ SetIndicator(indicatorHandleScroll(IndicatorState, pageYOffset))
  /\ lastEvent' = Event("touchTimer", NoKey)
  /\ threw' = FALSE
  /\ UNCHANGED << pageYOffset, innerWidth, scrollIndicator, touchListener >>

\* The indicator is on screen.
indicatorShown == indicatorDisplay = "block" /\ ~indicatorHidden

\* initScrollIndicator() on a page with or without the indicator, at
\* window width w, at the top of the page.
IndicatorInit(w, exists) ==
  /\ innerWidth = w
  /\ scrollIndicator = exists
  /\ hasScrolled = FALSE
  /\ indicatorHidden = FALSE
  /\ indicatorDisplay = (IF ~exists THEN "" ELSE IF showsIndicator(w, FALSE) THEN "block" ELSE "none")
  /\ scrollListener = (exists /\ showsIndicator(w, FALSE))
  /\ touchListener = exists
  /\ touchTimer = FALSE

\* A wide window, the indicator left alone.
IndicatorIdle == IndicatorInit(1024, TRUE)

(***************************************************************************)
(* Initial states.                                                         *)
(***************************************************************************)
\* Markup of an animated element: its animation class or its data-animate.
Markups == { [cl |-> {"animate-fade-in-up"}, da |-> ""],
             [cl |-> {"animate-fade-in"}, da |-> ""],
             [cl |-> {}, da |-> "zoom"] }

RevealInit(passed) ==
  /\ configArg = passed
  /\ config = Constructor(passed)
  /\ prefersReducedMotion \in BOOLEAN
  /\ initCalled = FALSE
  /\ observer = "null"
  /\ observed = {}
  /\ animatedElements = {}
  /\ \E m \in [Elems -> Markups] :
       /\ classList = [e \in Elems |-> m[e].cl]
       /\ dataAnimate = [e \in Elems |-> m[e].da]
  /\ style = [e \in Elems |-> [opacity |-> "", transform |-> ""]]
  /\ inHero \in [Elems -> BOOLEAN]
  /\ animationendListeners = {}
  /\ destroyCalls = 0

StaggerInit ==
  /\ cardDelay = [c \in Cards |-> << >>]
  /\ lastStagger = [n |-> 0, base |-> Undefined]

\* A page whose disclosure widgets are closed and are not used.
DisclosureIdle ==
  /\ itemActive = {}
  /\ ariaExpanded = [i \in Items |-> "false"]
  /\ itemHasHeader = [i \in Items |-> TRUE]
  /\ itemAccordion = [i \in Items |-> 0]
  /\ closedAtLoad = TRUE
  /\ activations = << >>
  /\ tabButtonActive = {}
  /\ tabPanelActive = {}
  /\ dataTab = [b \in Tabs |-> b]
  /\ tabWasActive = FALSE

\* The instance as initAnimations constructs it, on a page with one
\* animated element.
RevealIdle ==
  /\ configArg = [threshold |-> InitThreshold, animationDelay |-> InitAnimationDelay]
  /\ config = Constructor(configArg)
  /\ prefersReducedMotion = FALSE
  /\ initCalled = FALSE
  /\ observer = "null"
  /\ observed = {}
  /\ animatedElements = {}
  /\ classList = [e \in Elems |-> {"animate-fade-in-up"}]
  /\ dataAnimate = [e \in Elems |-> ""]
  /\ style = [e \in Elems |-> [opacity |-> "", transform |-> ""]]
  /\ inHero = [e \in Elems |-> FALSE]
  /\ animationendListeners = {}
  /\ destroyCalls = 0

(***************************************************************************)
(* Specifications.                                                         *)
(***************************************************************************)
\* Accordion and tabs.
InitDisclosure ==
  /\ AudioInit /\ audioSupported = TRUE
  /\ PopupIdle
  /\ FormInit
  /\ NavIdle
  /\ IndicatorIdle
  /\ TimersInit(FALSE)
  /\ Registered
  /\ DisclosureInit
  /\ RevealIdle
  /\ StaggerInit
  /\ lastEvent = NoEvent
  /\ threw = FALSE

NextDisclosure ==
  \/ (AccordionHeaderClick /\ UNCHANGED notDisc)
  \/ (AccordionHeaderKeydown /\ UNCHANGED notDisc)
  \/ (TabButtonClick /\ UNCHANGED notDisc)
  \/ (TabButtonKeydown /\ UNCHANGED notDisc)

SpecDisclosure == InitDisclosure /\ [][NextDisclosure]_vars

\* Pointer clicks only.
NextClicks ==
  \/ (AccordionHeaderClick /\ UNCHANGED notDisc)
  \/ (TabButtonClick /\ UNCHANGED notDisc)

\* A page with two '.accordion' containers, one after the other in document
\* order, each with at least one item; aria-expanded agrees with 'active'.
TwoAccordions ==
  { [i \in Items |-> IF i < k THEN 0 ELSE 1] : k \in 1 .. (NItems - 1) }

InitGroups ==
  /\ AudioInit /\ audioSupported = TRUE
  /\ PopupIdle
  /\ FormInit
  /\ NavIdle
  /\ IndicatorIdle
  /\ TimersInit(FALSE)
  /\ Registered
  /\ itemActive \in SUBSET Items
  /\ ariaExpanded = [i \in Items |-> IF i \in itemActive THEN "true" ELSE "false"]
  /\ itemHasHeader = [i \in Items |-> TRUE]
  /\ itemAccordion \in TwoAccordions
  /\ closedAtLoad = (itemActive = {})
  /\ activations = << >>
  /\ dataTab = [b \in Tabs |-> b]
  /\ tabButtonActive \in { B \in SUBSET Tabs : Cardinality(B) <= 1 }
  /\ tabPanelActive = { dataTab[b] : b \in tabButtonActive }
  /\ tabWasActive = FALSE
  /\ RevealIdle
  /\ StaggerInit
  /\ lastEvent = NoEvent
  /\ threw = FALSE

SpecGroups == InitGroups /\ [][NextClicks]_vars

\* Pages with at most one structural fault: an '.accordion-item' without a
\* '.accordion-header' child, or a tab button whose data-tab is the id of no
\* element; no tab is active in the markup.
HeaderMarkups ==
  { [i \in Items |-> i # j] : j \in Items \cup {NItems} }

DataTabMarkups ==
  { [b \in Tabs |-> IF b = c THEN NoPanel ELSE b] : c \in Tabs \cup {NTabs} }

InitFaults ==
  /\ AudioInit /\ audioSupported = TRUE
  /\ PopupIdle
  /\ FormInit
  /\ NavIdle
  /\ IndicatorIdle
  /\ TimersInit(FALSE)
  /\ Registered
  /\ itemActive \in SUBSET Items
  /\ itemHasHeader \in HeaderMarkups
  /\ ariaExpanded = [i \in Items |-> IF i \in itemActive /\ itemHasHeader[i]
                                        THEN "true" ELSE "false"]
  /\ itemAccordion = [i \in Items |-> 0]
  /\ closedAtLoad = (itemActive = {})
  /\ activations = << >>
  /\ dataTab \in DataTabMarkups
  /\ (\E j \in Items : ~itemHasHeader[j]) => dataTab = [b \in Tabs |-> b]
  /\ tabButtonActive = {}
  /\ tabPanelActive = {}
  /\ tabWasActive = FALSE
  /\ RevealIdle
  /\ StaggerInit
  /\ lastEvent = NoEvent
  /\ threw = FALSE

SpecFaults == InitFaults /\ [][NextClicks]_vars

\* DOM ready on any page.
InitRegister ==
  /\ AudioInit /\ audioSupported = TRUE
  /\ PopupIdle
  /\ FormInit
  /\ NavIdle
  /\ IndicatorIdle
  /\ TimersInit(FALSE)
  /\ Loading
  /\ itemActive \in SUBSET (0 .. (headersFound - 1))
  /\ ariaExpanded = [i \in Items |-> IF i \in itemActive THEN "true" ELSE "false"]
  /\ itemHasHeader = [i \in Items |-> TRUE]
  /\ itemAccordion = [i \in Items |-> 0]
  /\ closedAtLoad = (itemActive = {})
  /\ activations = << >>
  /\ dataTab = [b \in Tabs |-> b]
  /\ tabButtonActive = {}
  /\ tabPanelActive = {}
  /\ tabWasActive = FALSE
  /\ RevealIdle
  /\ StaggerInit
  /\ lastEvent = NoEvent
  /\ threw = FALSE

NextRegister ==
  \/ (DomReady /\ UNCHANGED notReg)
  \/ (AccordionHeaderClick /\ UNCHANGED notDisc)
  \/ (TabButtonClick /\ UNCHANGED notDisc)

SpecRegister == InitRegister /\ [][NextRegister]_vars

\* The ScrollAnimations instance of initAnimations.
InitReveal ==
  /\ AudioInit /\ audioSupported = TRUE
  /\ PopupIdle
  /\ FormInit
  /\ NavIdle
  /\ IndicatorIdle
  /\ TimersInit(FALSE)
  /\ Registered
  /\ DisclosureIdle
  /\ RevealInit([threshold |-> InitThreshold, animationDelay |-> InitAnimationDelay])
  /\ StaggerInit
  /\ lastEvent = NoEvent
  /\ threw = FALSE

NextReveal ==
  \/ (Init_ /\ UNCHANGED notReveal)
  \/ (HandleIntersection /\ UNCHANGED notReveal)
  \/ (HandleAnimationEnd /\ UNCHANGED notReveal)
  \/ (Destroy /\ UNCHANGED notReveal)

SpecReveal == InitReveal /\ [][NextReveal]_vars

\* applyStaggeredDelays on an instance constructed with any animationDelay.
InitStagger ==
  /\ AudioInit /\ audioSupported = TRUE
  /\ PopupIdle
  /\ FormInit
  /\ NavIdle
  /\ IndicatorIdle
  /\ TimersInit(FALSE)
  /\ Registered
  /\ DisclosureIdle
  /\ \E step \in Steps : RevealInit([threshold |-> InitThreshold, animationDelay |-> step])
  /\ prefersReducedMotion = FALSE
  /\ inHero = [e \in Elems |-> FALSE]
  /\ classList = [e \in Elems |-> {"animate-fade-in-up"}]
  /\ StaggerInit
  /\ lastEvent = NoEvent
  /\ threw = FALSE

NextStagger ==
  ApplyStaggeredDelays /\ UNCHANGED notStagger

SpecStagger == InitStagger /\ [][NextStagger]_vars

\* A debounced function, with either value of immediate.  Time passes and
\* a timer whose time is up runs: the event loop does not starve timers.
InitDebounce ==
  /\ AudioInit /\ audioSupported = TRUE
  /\ PopupIdle
  /\ FormInit
  /\ NavIdle
  /\ IndicatorIdle
  /\ Registered
  /\ DisclosureIdle
  /\ RevealIdle
  /\ StaggerInit
  /\ \E imm \in BOOLEAN : TimersInit(imm)
  /\ lastEvent = NoEvent
  /\ threw = FALSE

NextDebounce ==
  \/ (DebouncedCall /\ UNCHANGED notTimers)
  \/ (DebounceTimer /\ UNCHANGED notTimers)
  \/ (Tick /\ UNCHANGED notTimers)

SpecDebounce ==
  /\ InitDebounce
  /\ [][NextDebounce]_vars
  /\ WF_vars(DebounceTimer /\ UNCHANGED notTimers)
  /\ WF_vars(Tick /\ UNCHANGED notTimers)

\* A throttled function.
InitThrottle ==
  /\ AudioInit /\ audioSupported = TRUE
  /\ PopupIdle
  /\ FormInit
  /\ NavIdle
  /\ IndicatorIdle
  /\ Registered
  /\ DisclosureIdle
  /\ RevealIdle
  /\ StaggerInit
  /\ TimersInit(FALSE)
  /\ lastEvent = NoEvent
  /\ threw = FALSE

NextThrottle ==
  \/ (ThrottledCall /\ UNCHANGED notTimers)
  \/ (ThrottleTimer /\ UNCHANGED notTimers)
  \/ (Tick /\ UNCHANGED notTimers)
  \/ (ClockAdjust /\ UNCHANGED notTimers)

SpecThrottle ==
  /\ InitThrottle
  /\ [][NextThrottle]_vars
  /\ WF_vars(ThrottleTimer /\ UNCHANGED notTimers)
  /\ WF_vars(Tick /\ UNCHANGED notTimers)

\* The background audio of js/main.js.
InitAudio ==
  /\ Registered
  /\ DisclosureIdle
  /\ RevealIdle
  /\ StaggerInit
  /\ TimersInit(FALSE)
  /\ AudioInit
  /\ PopupIdle
  /\ FormInit
  /\ NavIdle
  /\ IndicatorIdle
  /\ audioSupported \in BOOLEAN
  /\ lastEvent = NoEvent
  /\ threw = FALSE

NextAudio ==
  \/ (SetupAutoplayAudio /\ UNCHANGED notAudio)
  \/ (AutoplayTimer /\ UNCHANGED notAudio)
  \/ (AudioTick /\ UNCHANGED notAudio)
  \/ (VisibilityChange /\ UNCHANGED notAudio)
  \/ (Interaction /\ UNCHANGED notAudio)

SpecAudio == InitAudio /\ [][NextAudio]_vars

\* The popup variant of main.js: any popup markup, overlay not displayed
\* by its inline style before initApp().
InitPopup ==
  /\ Registered
  /\ DisclosureIdle
  /\ RevealIdle
  /\ StaggerInit
  /\ TimersInit(FALSE)
  /\ AudioInit
  /\ audioSupported \in BOOLEAN
  /\ popupOverlay \in BOOLEAN
  /\ enterButton \in BOOLEAN
  /\ popupWired = FALSE
  /\ popupDisplay = ""
  /\ popupOpacity = ""
  /\ closeTimers = 0
  /\ FormInit
  /\ NavIdle
  /\ IndicatorIdle
  /\ lastEvent = NoEvent
  /\ threw = FALSE

NextPopup ==
  \/ (InitAppPopup /\ UNCHANGED notPopup)
  \/ (EnterButtonClick /\ UNCHANGED notPopup)
  \/ (DocumentKeydown /\ UNCHANGED notPopup)
  \/ (CloseTimer /\ UNCHANGED notPopup)
  \/ (VisibilityChangePopup /\ UNCHANGED notPopup)

SpecPopup ==
  /\ InitPopup
  /\ [][NextPopup]_vars
  /\ WF_vars(CloseTimer /\ UNCHANGED notPopup)

\* The contact form.
InitForm ==
  /\ AudioInit /\ audioSupported = TRUE
  /\ PopupIdle
  /\ FormInit
  /\ NavIdle
  /\ IndicatorIdle
  /\ Registered
  /\ DisclosureIdle
  /\ RevealIdle
  /\ StaggerInit
  /\ TimersInit(FALSE)
  /\ lastEvent = NoEvent
  /\ threw = FALSE

NextForm ==
  \/ (FieldInput /\ UNCHANGED notForm)
  \/ (FieldBlur /\ UNCHANGED notForm)
  \/ (FormSubmit /\ UNCHANGED notForm)
  \/ (RequestSettles /\ UNCHANGED notForm)

\* validateField on every text: the three fields hold the same text.
InitValidate ==
  /\ AudioInit /\ audioSupported = TRUE
  /\ PopupIdle
  /\ \E v \in Texts : FormFresh([f \in Fields |-> v])
  /\ NavIdle
  /\ IndicatorIdle
  /\ Registered
  /\ DisclosureIdle
  /\ RevealIdle
  /\ StaggerInit
  /\ TimersInit(FALSE)
  /\ lastEvent = NoEvent
  /\ threw = FALSE

NextValidate ==
  \/ (FieldBlur /\ UNCHANGED notForm)
  \/ (FormSubmit /\ UNCHANGED notForm)

SpecValidate == InitValidate /\ [][NextValidate]_vars

SpecForm ==
  /\ InitForm
  /\ [][NextForm]_vars
  /\ WF_vars(RequestSettles /\ UNCHANGED notForm)

\* The navigation, with or without a toggle, with any link targets.
InitNav ==
  /\ AudioInit /\ audioSupported = TRUE
  /\ PopupIdle
  /\ FormInit
  /\ Registered
  /\ DisclosureIdle
  /\ RevealIdle
  /\ StaggerInit
  /\ TimersInit(FALSE)
  /\ navToggle \in BOOLEAN
  /\ linkTarget \in [Links -> BOOLEAN]
  /\ NavInit
  /\ IndicatorIdle
  /\ lastEvent = NoEvent
  /\ threw = FALSE

NextNav ==
  \/ (NavToggleClick /\ UNCHANGED notNav)
  \/ (NavLinkClick /\ UNCHANGED notNav)
  \/ (OutsideClick /\ UNCHANGED notNav)
  \/ (NavKeydown /\ UNCHANGED notNav)
  \/ (NavScroll /\ UNCHANGED notNav)
  \/ (AnimationFrame /\ UNCHANGED notNav)

SpecNav ==
  /\ InitNav
  /\ [][NextNav]_vars
  /\ WF_vars(AnimationFrame /\ UNCHANGED notNav)

\* The scroll indicator, on any window width.
InitIndicator ==
  /\ AudioInit /\ audioSupported = TRUE
  /\ PopupIdle
  /\ FormInit
  /\ NavIdle
  /\ Registered
  /\ DisclosureIdle
  /\ RevealIdle
  /\ StaggerInit
  /\ TimersInit(FALSE)
  /\ \E w \in Widths, exists \in BOOLEAN : IndicatorInit(w, exists)
  /\ lastEvent = NoEvent
  /\ threw = FALSE

NextIndicator ==
  \/ (IndicatorResize /\ UNCHANGED notIndicator)
  \/ (IndicatorScroll /\ UNCHANGED notIndicator)
  \/ (IndicatorTouchStart /\ UNCHANGED notIndicator)
  \/ (IndicatorTouchTimer /\ UNCHANGED notIndicator)

SpecIndicator ==
  /\ InitIndicator
  /\ [][NextIndicator]_vars
  /\ WF_vars(IndicatorTouchTimer /\ UNCHANGED notIndicator)

(***************************************************************************)
(* Properties.                                                             *)
(***************************************************************************)
\* C1: after any non-empty sequence of accordion header activations at most
\* one accordion item carries the class 'active'.
C1_AtMostOneOpen ==
  activations # << >> => Cardinality(itemActive) <= 1

\* Some item was open in the markup; the first activation opened another
\* item, and that one is the only open item.
C1_Witness ==
  /\ ~closedAtLoad
  /\ Len(activations) = 1
  /\ activations # LogOverflow
  /\ itemActive = {activations[1]}

\* An activation of the header of item i: a pointer click or Enter/Space.
ActivateOn(i) ==
  \/ AccordionHeaderClickOn(i)
  \/ AccordionHeaderKeydownOn(i, "Enter")
  \/ AccordionHeaderKeydownOn(i, " ")

\* C2: activating the header of an item that is open closes it and opens
\* nothing else: no item is open right afterwards.
C2_ReactivateClosesAll ==
  [][ \A i \in Items : (i \in itemActive /\ ActivateOn(i)) => itemActive' = {} ]_vars

\* All closed at load; an item was activated (opened) and activated again:
\* nothing is open.
C2_Witness ==
  /\ closedAtLoad
  /\ Len(activations) = 2
  /\ activations[1] = activations[2]
  /\ itemActive = {}

\* The 3-item scenario of C3, read off the history of activations.
C3_Scenario ==
  (NItems >= 3 /\ closedAtLoad) =>
     /\ activations = << 1 >> => itemActive = {1}
     /\ activations = << 1, 1 >> => itemActive = {}
     /\ activations = << 1, 1, 0 >> => itemActive = {0}

\* C3: activating the header of a closed item leaves exactly that item
\* open, whatever was open before; from 3 closed items the activations
\* 1, 1, 0 give the open sets {1}, {} and {0}.
C3_ActivateClosedOpensOnlyIt ==
  /\ [][ \A i \in Items : (i \notin itemActive /\ ActivateOn(i)) => itemActive' = {i} ]_vars
  /\ []C3_Scenario

\* The end of the scenario: all closed at load, then 1, 1, 0.
C3_Witness ==
  /\ closedAtLoad
  /\ activations = << 1, 1, 0 >>
  /\ itemActive = {0}

\* The element is revealed: member of animatedElements, class 'visible'.
Revealed(e) == e \in animatedElements /\ "visible" \in classList[e]

\* C4: a revealed element stays revealed under every later event, and a
\* further intersection entry for it changes nothing.
C4_RevealMonotonic ==
  /\ [][ \A e \in Elems : Revealed(e) => Revealed(e)' ]_vars
  /\ [][ \A e \in Elems, b \in BOOLEAN, r \in Ratios :
           (e \in animatedElements /\ HandleIntersectionOn(e, b, r)) =>
              UNCHANGED << classList, style, animatedElements, observed, observer >> ]_vars

\* A revealed element whose animation ended, after destroy(), still revealed.
C4_Witness ==
  \E e \in Elems :
    /\ Revealed(e)
    /\ "animation-complete" \in classList[e]
    /\ destroyCalls > 0

\* C5 (as claimed): an element is revealed only by an entry whose visible
\* fraction is at or above the threshold, and is revealed once such an entry
\* has been handled.
C5_RevealedAtThreshold ==
  [][ \A e \in Elems, b \in BOOLEAN, r \in Ratios :
        HandleIntersectionOn(e, b, r) =>
          /\ (e \notin animatedElements /\ e \in animatedElements') => r >= config.threshold
          /\ r >= config.threshold => e \in animatedElements' ]_vars

\* Elements init() tracks: they match the selector and are outside the hero.
Tracked(e) == matchesSelector(classList[e], dataAnimate[e]) /\ ~inHero[e]

\* C6: with the reduced-motion preference init() makes every tracked element
\* visible at once, creates no observer, observes nothing, and no
\* intersection entry is ever handled.
C6_ReducedMotionFastPath ==
  (prefersReducedMotion /\ initCalled) =>
     /\ \A e \in Elems : Tracked(e) => ("visible" \in classList[e] /\ style[e].opacity = "1")
     /\ observer = "null"
     /\ observed = {}
     /\ animatedElements = {}
     /\ animationendListeners = {}
     /\ lastEvent.kind \notin {"intersection", "animationend"}

C6_Witness ==
  /\ prefersReducedMotion
  /\ lastEvent.kind = "init"
  /\ \E e \in Elems : Tracked(e) /\ "visible" \in classList[e]

\* Value of a decimal digit character.
DigitValue(ch) == CHOOSE d \in 0 .. 9 : Digit(d) = ch

\* Reading `${n}ms` back: the number in front of the unit, Undefined when
\* the text is not of that shape.
RECURSIVE DigitsValue(_)
DigitsValue(seq) ==
  IF Len(seq) = 0 THEN 0
  ELSE 10 * DigitsValue(SubSeq(seq, 1, Len(seq) - 1)) + DigitValue(seq[Len(seq)])

ParseMs(text) ==
  IF /\ Len(text) >= 3
     /\ SubSeq(text, Len(text) - 1, Len(text)) = << "m", "s" >>
     /\ \A j \in 1 .. (Len(text) - 2) : \E d \in 0 .. 9 : Digit(d) = text[j]
    THEN DigitsValue(SubSeq(text, 1, Len(text) - 2))
    ELSE Undefined

\* C7: applyStaggeredDelays(elements, base) gives the element at index i the
\* delay base + i * step for the configured step (0 included); step 100,
\* base 0 and 5 elements give 0, 100, 200, 300, 400 ms.
C7_StaggerDelays ==
  (lastEvent.kind = "applyStaggeredDelays"
     /\ lastStagger.base # Undefined /\ configArg.animationDelay # Undefined) =>
    /\ \A c \in Cards : c < lastStagger.n =>
         ParseMs(cardDelay[c]) = lastStagger.base + c * configArg.animationDelay
    /\ (configArg.animationDelay = 100 /\ lastStagger.base = 0 /\ lastStagger.n = 5) =>
         /\ cardDelay[0] = << "0", "m", "s" >>
         /\ cardDelay[1] = << "1", "0", "0", "m", "s" >>
         /\ cardDelay[2] = << "2", "0", "0", "m", "s" >>
         /\ cardDelay[3] = << "3", "0", "0", "m", "s" >>
         /\ cardDelay[4] = << "4", "0", "0", "m", "s" >>

\* Step 0: five elements all get the base delay.
C7_Witness ==
  /\ configArg.animationDelay = 0
  /\ lastStagger = [n |-> 5, base |-> 50]
  /\ cardDelay[4] = << "5", "0", "m", "s" >>

\* C8 (as claimed): once destroy() has run on an initialised instance (its
\* observer is disconnected) no intersection or animationend event is
\* handled any more.
C8_NothingHandledAfterDestroy ==
  observer = "disconnected" => lastEvent.kind = "destroy"

\* C9: destroy() never raises, also before init() and after the
\* reduced-motion path, and a destroy() directly after a destroy() leaves
\* the instance and the page as they are.
C9_DestroyIdempotent ==
  /\ [](lastEvent.kind = "destroy" => ~threw)
  /\ [][ (lastEvent.kind = "destroy" /\ lastEvent'.kind = "destroy") =>
           UNCHANGED << observer, observed, animationendListeners, animatedElements,
                        classList, style >> ]_vars

\* Two calls in a row on an instance that took the reduced-motion path.
C9_Witness ==
  /\ prefersReducedMotion
  /\ initCalled
  /\ destroyCalls = 2
  /\ lastEvent.kind = "destroy"
  /\ ~threw

\* C10: a keydown of Enter or Space on an accordion header or a tab button
\* leaves the state one click on it would leave; any other key leaves the
\* state as it is.
C10_KeyboardEquivalence ==
  /\ [][ \A i \in Items, k \in Keys : AccordionHeaderKeydownOn(i, k) =>
           IF k \in {"Enter", " "}
             THEN /\ itemActive' = accordionClick(AccState, itemHasHeader, i).active
                  /\ ariaExpanded' = accordionClick(AccState, itemHasHeader, i).aria
             ELSE UNCHANGED << itemActive, ariaExpanded >> ]_vars
  /\ [][ \A b \in Tabs, k \in Keys : TabButtonKeydownOn(b, k) =>
           IF k \in {"Enter", " "}
             THEN /\ tabButtonActive' = tabClick(TabState, dataTab, b).buttons
                  /\ tabPanelActive' = tabClick(TabState, dataTab, b).panels
             ELSE UNCHANGED << tabButtonActive, tabPanelActive >> ]_vars

\* Space on the header of a closed item opened exactly that item.
C10_Witness ==
  /\ lastEvent = Event("accordionKeydown", " ")
  /\ closedAtLoad
  /\ Len(activations) = 1
  /\ activations # LogOverflow
  /\ itemActive = {activations[1]}

\* C11: after any non-empty sequence of accordion activations the header of
\* an item has aria-expanded 'true' exactly when the item carries 'active'.
C11_AriaTracksActive ==
  activations # << >> =>
    \A i \in Items : (ariaExpanded[i] = "true") <=> (i \in itemActive)

\* Two activations have run and left an item open whose header says so.
C11_Witness ==
  /\ Len(activations) = 2
  /\ activations # LogOverflow
  /\ \E i \in Items : i \in itemActive /\ ariaExpanded[i] = "true"
  /\ \E j \in Items : j \notin itemActive /\ ariaExpanded[j] = "false"

\* C12: activating a header of one accordion leaves the items of another
\* accordion of the page unchanged.
C12_GroupIsolation ==
  [][\A i \in Items, j \in Items :
       (itemAccordion[j] # itemAccordion[i] /\ AccordionHeaderClickOn(i))
         => ((j \in itemActive') <=> (j \in itemActive))]_vars

\* C12 (amended): the click handler treats every '.accordion-item' of the
\* document as one group: activating header i leaves no other item active,
\* in whichever accordion it sits; the tabs are untouched by it, and a tab
\* click leaves the accordion untouched.
C12_DocumentWideGroup ==
  [][/\ \A i \in Items :
          (itemHasHeader[i] /\ AccordionHeaderClickOn(i))
            => /\ itemActive' \subseteq {i}
               /\ tabButtonActive' = tabButtonActive
               /\ tabPanelActive' = tabPanelActive
     /\ \A b \in Tabs :
          TabButtonClickOn(b)
            => /\ itemActive' = itemActive
               /\ ariaExpanded' = ariaExpanded]_vars

\* A click in one accordion has just run while an item of the other
\* accordion was open in the markup: the clicked item alone is open.
C12_Witness ==
  /\ \E i \in Items, j \in Items : itemAccordion[i] # itemAccordion[j]
  /\ lastEvent.kind = "accordionClick"
  /\ Len(activations) = 1
  /\ activations # LogOverflow
  /\ ~closedAtLoad
  /\ itemActive = {activations[1]}
  /\ tabButtonActive # {}

\* C13: a click on the tab button that is already active closes it, so that
\* no tab button and no tab panel is active afterwards.
C13_TabReactivateCloses ==
  [][\A b \in Tabs :
       (b \in tabButtonActive /\ TabButtonClickOn(b))
         => (tabButtonActive' = {} /\ tabPanelActive' = {})]_vars

\* C13 (amended): a click on the tab button that is already active keeps it
\* active: afterwards that button and its panel are the only active ones.
C13_TabReactivateKeeps ==
  [][\A b \in Tabs :
       (b \in tabButtonActive /\ TabButtonClickOn(b))
         => (tabButtonActive' = {b} /\ tabPanelActive' = {dataTab[b]})]_vars

\* The active tab button has just been clicked again and is still active.
C13_Witness ==
  /\ lastEvent.kind = "tabClick"
  /\ tabWasActive
  /\ Cardinality(tabButtonActive) = 1
  /\ tabPanelActive = { dataTab[b] : b \in tabButtonActive }

\* C14: on every path of init(), with or without reduced motion, an element
\* inside '.hero-section' is not observed and keeps its classes and its
\* inline style.
C14_HeroUntouchedByInit ==
  [][(~initCalled /\ initCalled')
       => \A e \in Elems :
            inHero[e] => /\ e \notin observed'
                         /\ classList'[e] = classList[e]
                         /\ style'[e] = style[e]]_vars

\* C14 (amended): init() never observes a hero element; without reduced
\* motion it leaves the element's classes and inline style alone, with
\* reduced motion disableAnimations() gives it 'visible', opacity 1 and
\* transform none like every other animated element.
C14_HeroNotObserved ==
  [][(~initCalled /\ initCalled')
       => \A e \in Elems :
            inHero[e] =>
              /\ e \notin observed'
              /\ ~prefersReducedMotion
                   => (classList'[e] = classList[e] /\ style'[e] = style[e])
              /\ prefersReducedMotion
                   => /\ classList'[e] = classList[e] \cup {"visible"}
                      /\ style'[e] = [opacity |-> "1", transform |-> "none"]]_vars

\* init() has run without reduced motion on a page with a hero element and
\* another animated element: only the other one is observed.
C14_Witness ==
  /\ lastEvent.kind = "init"
  /\ ~prefersReducedMotion
  /\ observer = "observing"
  /\ \E e \in Elems : /\ inHero[e]
                       /\ e \notin observed
                       /\ "visible" \notin classList[e]
                       /\ style[e].opacity = ""
  /\ observed # {}

\* C15: every element of animatedElements carries the class 'visible'.
C15_RevealedIsVisible ==
  \A e \in Elems : e \in animatedElements => "visible" \in classList[e]

\* C16: on a page with an accordion item that has no header, activating a
\* header raises no error and leaves 'active' and aria-expanded of every
\* item as they were; a click on a tab button whose data-tab names no panel
\* raises no error and leaves every tab button and panel as it was.
C16_FaultsAreNoOps ==
  [][/\ \A i \in Items :
          ((\E j \in Items : ~itemHasHeader[j]) /\ AccordionHeaderClickOn(i))
            => /\ ~threw'
               /\ itemActive' = itemActive
               /\ ariaExpanded' = ariaExpanded
     /\ \A b \in Tabs :
          (dataTab[b] = NoPanel /\ TabButtonClickOn(b))
            => /\ ~threw'
               /\ tabButtonActive' = tabButtonActive
               /\ tabPanelActive' = tabPanelActive]_vars

\* C17: registering an empty disclosure group (no accordion header; no tab
\* button or no tab panel) ends with an error.
C17_EmptyGroupRejected ==
  domReady =>
    /\ headersFound = 0 => threw
    /\ (tabButtonsFound = 0 \/ tabPanelsFound = 0) => threw

\* C17 (amended): registration never ends with an error.  Without tab
\* buttons or without tab panels initItineraryTabs wires no button and
\* writes the warning 'Tab elements not found'; otherwise it wires every
\* button and warns of nothing.  initAccordion wires every header it finds
\* and, finding none, wires nothing and reports nothing.
C17_EmptyGroupTolerated ==
  (domReady /\ lastEvent.kind = "domReady") =>
    /\ ~threw
    /\ headersWired = headersFound
    /\ IF tabButtonsFound = 0 \/ tabPanelsFound = 0
         THEN tabButtonsWired = 0 /\ warnings = {TabWarning}
         ELSE tabButtonsWired = tabButtonsFound /\ warnings = {}

\* DOM ready has run on a page with tab buttons but no tab panel and no
\* accordion header.
C17_Witness ==
  /\ domReady
  /\ lastEvent.kind = "domReady"
  /\ headersFound = 0
  /\ tabButtonsFound > 0
  /\ tabPanelsFound = 0
  /\ tabButtonsWired = 0
  /\ warnings = {TabWarning}
  /\ ~threw

\* C18: with either value of immediate, a burst of calls of the debounced
\* function ends with func executed with the args of the most recent call:
\* once the timer of the burst has run and none is pending, nothing but a
\* new call can execute func, so func has been executed with those args.
C18_LastCallRuns ==
  (calls > 0 /\ timeout = NoTimer) => funcArgs = lastArgs

\* C18 (amended): with immediate false, every burst of calls is followed by
\* an execution of func with the args of the most recent call; with
\* immediate true, func is executed only by a call that finds no timer
\* pending, with the args of that call, and the timer executes nothing.
C18_TrailingOrLeading ==
  /\ (~immediate /\ timeout # NoTimer)
       ~> (timeout = NoTimer /\ funcArgs = lastArgs)
  /\ [][(immediate /\ funcRuns' # funcRuns)
          => /\ timeout = NoTimer
             /\ calls' = calls + 1
             /\ funcArgs' = lastArgs']_vars

\* Trailing mode: a burst of two calls, then the timer has executed func
\* once, with the args of the second call.
C18_Witness ==
  /\ ~immediate
  /\ lastEvent.kind = "debounceTimer"
  /\ calls = 2
  /\ funcRuns = 1
  /\ timeout = NoTimer
  /\ funcArgs = lastArgs

C20_HiddenIsSilent ==
  hiddenHandled => audioPaused

\* C21: while the welcome popup overlay has not been closed (its display
\* is not 'none') no play request has been made and the audio is paused.
C21_OverlayBlocksPlayback ==
  (popupOverlay /\ popupDisplay # "none") => (playRequests = 0 /\ audioPaused)

\* The overlay was displayed, the close timer has hidden it and made the
\* first play request.
C21_Witness ==
  /\ popupWired
  /\ popupDisplay = "none"
  /\ lastEvent.kind = "closeTimer"
  /\ playRequests = 1
  /\ ~audioPaused

\* C23: at most one Audio object is ever constructed, audioInitialized is
\* true only while backgroundAudio is not null, and once the audio is
\* initialised no step replaces the handle or constructs another one.
C23_SingleAudioHandle ==
  /\ [](audiosCreated <= 1)
  /\ [](audioInitialized => backgroundAudio # "null")
  /\ [][audioInitialized =>
         (backgroundAudio' = backgroundAudio /\ audiosCreated' = audiosCreated
          /\ audioInitialized')]_vars

\* The initialised audio has been asked to play twice and is still the
\* one object constructed.
C23_Witness ==
  /\ audioInitialized
  /\ audiosCreated = 1
  /\ playRequests = 2

\* C24: after a click on tab button b exactly button b is active, at most
\* one panel is active, an active panel is the one named by b's data-tab,
\* and no panel is active when that panel does not exist.
C24_TabConsistency ==
  [][\A b \in Tabs :
       (TabButtonClickOn(b) \/ (\E k \in Keys : keydownClicks(k) > 0 /\ TabButtonKeydownOn(b, k)))
         => /\ tabButtonActive' = {b}
            /\ Cardinality(tabPanelActive') <= 1
            /\ \A p \in tabPanelActive' : p = dataTab[b]
            /\ dataTab[b] = NoPanel => tabPanelActive' = {}]_vars

\* A click on a button whose panel does not exist: the button is active
\* and no panel is.
C24_Witness ==
  /\ lastEvent.kind = "tabClick"
  /\ \E b \in Tabs : tabButtonActive = {b} /\ dataTab[b] = NoPanel
  /\ tabPanelActive = {}

\* C25: with immediate false, func is invoked exactly once per burst of
\* calls (a maximal run of calls less than wait apart): when no timer is
\* pending, func has run once for every burst begun.
C25_OncePerBurst ==
  (~immediate /\ timeout = NoTimer) => funcRuns = bursts

\* C25 (amended): with immediate false at most one timer is pending and a
\* call cancels the pending one and invokes nothing; func is invoked only
\* by the timer, once by every timer that runs and at most once per burst,
\* never earlier than wait after the most recent call and with the args of
\* that call.
C25_TrailingDebounce ==
  /\ [](~immediate => /\ pendingTimers <= 1
                       /\ (pendingTimers = 1 <=> timeout # NoTimer)
                       /\ funcRuns <= bursts)
  /\ [][(~immediate /\ calls' # calls)
          => /\ timeout' = Wait
             /\ pendingTimers' = 1
             /\ funcRuns' = funcRuns]_vars
  /\ [][(~immediate /\ funcRuns' # funcRuns)
          => /\ funcRuns' = funcRuns + 1
             /\ timeout = 0 /\ timeout' = NoTimer
             /\ sinceCall >= Wait
             /\ funcArgs' = lastArgs]_vars
  /\ [][(~immediate /\ timeout = 0 /\ timeout' = NoTimer)
          => funcRuns' = funcRuns + 1]_vars

\* Two bursts of calls, each ended by its timer: func has run twice, the
\* second time with the args of the third call.
C25_Witness ==
  /\ ~immediate
  /\ lastEvent.kind = "debounceTimer"
  /\ calls = 3
  /\ bursts = 2
  /\ funcRuns = 2
  /\ funcArgs = lastArgs

\* C26: with immediate true, the first call of every burst invokes func.
C26_LeadingCallOfEachBurst ==
  [][(immediate /\ calls' # calls /\ startsBurst)
       => funcRuns' = funcRuns + 1]_vars

\* C26 (amended): with immediate true, a call invokes func, with its own
\* args, exactly when no timer is pending; such a call is the first of its
\* burst, so a new leading call is possible only wait after the previous
\* call; the timer never invokes func.
C26_LeadingDebounce ==
  /\ [][(immediate /\ calls' # calls)
          => ((funcRuns' # funcRuns) <=> timeout = NoTimer)]_vars
  /\ [][(immediate /\ funcRuns' # funcRuns)
          => /\ funcRuns' = funcRuns + 1
             /\ calls' = calls + 1
             /\ startsBurst
             /\ funcArgs' = lastArgs']_vars
  /\ [][(immediate /\ timeout = 0 /\ timeout' = NoTimer)
          => (funcRuns' = funcRuns /\ funcArgs' = funcArgs)]_vars

\* Leading mode: the second burst has begun after the timer of the first
\* one ran, and its first call has invoked func.
C26_Witness ==
  /\ immediate
  /\ lastEvent.kind = "debouncedCall"
  /\ bursts = 2
  /\ funcRuns = 2
  /\ sinceRun = 0
  /\ funcArgs = lastArgs

\* C27: the throttled function does not lose the trailing call: once no
\* timer is pending, func has been executed with the args of the most
\* recent call, also when the timer ran while Date.now() - lastRan was
\* below limit.
C27_TrailingCallNotLost ==
  (calls > 0 /\ lastFunc = NoTimer) => funcArgs = lastArgs

\* C28: a submit event starts a submission exactly when name, email and
\* message are all valid; otherwise nothing is submitted, the button stays
\* enabled, the status message is unchanged and every invalid field shows
\* its error.
C28_SubmitGating ==
  [][FormSubmit =>
       /\ (requestPending' /\ submitLoading' /\ submissions' = submissions + 1)
            <=> validateAllFields(fieldValue)
       /\ ~validateAllFields(fieldValue) =>
            /\ ~requestPending'
            /\ submissions' = submissions
            /\ ~submitDisabled' /\ ~submitLoading'
            /\ << statusText', statusClass', statusRole' >>
                 = << statusText, statusClass, statusRole >>
            /\ \A f \in Fields :
                 ~validateField(f, fieldValue[f]) =>
                   (fieldError'[f] # "" /\ fieldError'[f] = validateFieldError(f, fieldValue[f]))]_vars

\* A rejected submit with two invalid fields: both show their errors and
\* the button is enabled.
C28_Witness ==
  /\ lastEvent.kind = "submit"
  /\ ~requestPending
  /\ ~submitDisabled
  /\ fieldError["name"] = ""
  /\ fieldError["email"] = InvalidEmail
  /\ fieldError["message"] = TooShort

\* C29: while a submission is pending the submit button is disabled and
\* marked loading, and every submission settles, after which the button is
\* enabled and not loading, on success and on failure.
C29_LoadingBracket ==
  /\ [](requestPending => (submitDisabled /\ submitLoading))
  /\ requestPending ~> (~requestPending /\ ~submitDisabled /\ ~submitLoading)
  /\ [][RequestSettles => (~submitDisabled' /\ ~submitLoading')]_vars

\* A submission has failed and the button is enabled again.
C29_Witness ==
  /\ lastEvent.kind = "submitSettled"
  /\ statusClass = "form-status error"
  /\ submissions = 1
  /\ ~submitDisabled
  /\ ~submitLoading

\* C30: when a submission fails, the field values and error markers are
\* exactly those of the start of the submission (valid values, no error).
C30_FailureKeepsSubmitted ==
  [][(RequestSettles /\ statusClass' = "form-status error")
       => (fieldValue' = submittedValues /\ fieldError' = NoErrors)]_vars

\* C30 (amended): a submission shows exactly one outcome; on success the
\* status is 'success', every field is reset to empty and every field error
\* is cleared; on failure the status is 'error' and the field values and
\* error markers are left as they are when the request settles.
C30_SubmitOutcomes ==
  /\ [][RequestSettles =>
          /\ outcomes' = outcomes + 1
          /\ \/ /\ statusClass' = "form-status success"
                /\ statusText' = SuccessText
                /\ fieldValue' = [f \in Fields |-> ""]
                /\ fieldError' = [f \in Fields |-> ""]
             \/ /\ statusClass' = "form-status error"
                /\ statusText' = ErrorText
                /\ fieldValue' = fieldValue
                /\ fieldError' = fieldError]_vars
  /\ [][outcomes' # outcomes => (requestPending /\ ~requestPending')]_vars
  /\ [](outcomes + (IF requestPending THEN 1 ELSE 0) = submissions)
  /\ []((statusClass = "form-status") => statusText = "")

\* A submission has failed after the user changed a field during the
\* request: the changed value is still there.
C30_Witness ==
  /\ lastEvent.kind = "submitSettled"
  /\ statusClass = "form-status error"
  /\ fieldValue["name"] = "Hello there, see you"
  /\ fieldValue["email"] = "a@b.co"
  /\ fieldValue["message"] = "  "
  /\ outcomes = 2

\* C31: submissions do not overlap and the success of a submission does
\* not reset the form after the user has typed new values: when a request
\* settles while the fields differ from the submitted values, the values
\* stay.
C31_NoResetAfterTyping ==
  /\ [][RequestSettles =>
          \A f \in Fields :
            fieldValue[f] # submittedValues[f] => fieldValue'[f] = fieldValue[f]]_vars
  /\ [](requestPending => (submitDisabled /\ submitLoading))

\* C32: starting from a closed menu, isMenuOpen is true exactly when the
\* menu has class 'open', aria-expanded of the toggle is 'true' and the
\* body scroll is locked; clicks outside the navigation, keydowns and
\* clicks on navigation links never open the menu.
C32_MenuConsistency ==
  /\ [](/\ isMenuOpen <=> menuOpenClass
        /\ isMenuOpen <=> (toggleAria = "true")
        /\ isMenuOpen <=> (bodyOverflow = "hidden"))
  /\ [][(lastEvent'.kind \in {"outsideClick", "navKeydown", "navLinkClick"})
          => (isMenuOpen' => isMenuOpen)]_vars

\* The menu was opened and a click on a link whose section is missing has
\* left it open, with the scroll locked.
C32_Witness ==
  /\ lastEvent.kind = "navLinkClick"
  /\ isMenuOpen /\ menuOpenClass
  /\ toggleAria = "true"
  /\ bodyOverflow = "hidden"

\* C33: at most one animation-frame callback of the navigation is pending;
\* every scroll event is followed by a run of handleScroll, and whenever
\* none is pending after a scroll the 'scrolled' class and the active link
\* are those of the current scroll position (scrolled iff position > 50).
C33_ScrollCoalescing ==
  /\ [](rafPending <= 1 /\ (ticking <=> rafPending = 1))
  /\ []((scrollSeen /\ ~ticking)
          => /\ navScrolled <=> (pageYOffset > 50)
             /\ activeLinks = updateActiveLink(pageYOffset))
  /\ ticking ~> (~ticking /\ (navScrolled <=> (pageYOffset > 50)))
  /\ [][(lastEvent'.kind = "scroll") => ticking']_vars

\* Two scroll events shared one animation frame, which has run at the final
\* position.
C33_Witness ==
  /\ lastEvent.kind = "animationFrame"
  /\ pageYOffset = 51
  /\ navScrolled
  /\ rafPending = 0

\* C34: once the Enter button has been activated (by a click, or by Escape
\* while the overlay's display is 'flex') the overlay eventually has display
\* 'none'; from then on it stays 'none' and a keydown changes nothing.
C34_PopupCloses ==
  /\ (popupOpacity = "0") ~> (popupDisplay = "none")
  /\ [][(popupDisplay = "none") => (popupDisplay' = "none")]_vars
  /\ [][(popupDisplay = "none" /\ lastEvent'.kind = "documentKeydown")
          => UNCHANGED << popupVars, audioVars >>]_vars

\* Escape pressed after the overlay was closed.
C34_Witness ==
  /\ lastEvent = Event("documentKeydown", "Escape")
  /\ popupWired
  /\ popupDisplay = "none"
  /\ popupOpacity = "0"
  /\ closeTimers = 0

\* C35: closing the popup requests playback once: whatever is clicked or
\* pressed during the fade-out, only one close timer fires, so a close
\* timer that runs finds the overlay not yet closed.
C35_OneCloseTimerFires ==
  [][(lastEvent'.kind = "closeTimer") => (popupDisplay # "none")]_vars

\* C36 (first half): once hasScrolled is set the indicator is never on
\* screen again, whatever resize, scroll or touch event follows.
C36_OneShot ==
  /\ [](hasScrolled => ~indicatorShown)
  /\ [][hasScrolled => hasScrolled']_vars

\* C36: the scroll indicator is one-shot, and any touch interaction on a
\* mobile window hides it: when the timer of the touch has run on a window
\* at most 767 wide, the indicator is not on screen.
C36_TouchHidesIndicator ==
  [][(lastEvent'.kind = "touchTimer" /\ isMobile(innerWidth'))
       => ~indicatorShown']_vars

\* The value has a character that is not white space.
C37_hasText(v) == \E k \in 1 .. Len(v) : charAt(v, k) # " "

\* local@domain.tld: exactly one '@', no white space, a non-empty local
\* part, and a '.' after the '@' with a character on each side of it.
C37_emailShape(t) ==
  LET ats == {k \in 1 .. Len(t) : charAt(t, k) = "@"}
  IN /\ Cardinality(ats) = 1
     /\ \A k \in 1 .. Len(t) : charAt(t, k) # " "
     /\ \E at \in ats :
          /\ at > 1
          /\ \E j \in (at + 2) .. (Len(t) - 1) : charAt(t, j) = "."

C37_expected(f, v) ==
  /\ C37_hasText(v)
  /\ f = "email" => C37_emailShape(trim(v))
  /\ f = "message" => Len(trim(v)) >= 10

\* C37: validateField(f) returns true exactly when the trimmed value is
\* non-empty, is of the form local@domain.tld for the email field, and has
\* at least 10 characters for the message field; it returns true iff it
\* leaves the field without an error marker, and false iff it leaves the
\* field with class 'error', aria-invalid 'true' and a non-empty error
\* text.
C37_ValidateField ==
  [][\A f \in Fields :
       FieldBlurOf(f) =>
         /\ validateField(f, fieldValue[f]) <=> C37_expected(f, fieldValue[f])
         /\ validateField(f, fieldValue[f]) <=>
              (/\ ~fieldClassError'[f]
               /\ fieldAriaInvalid'[f] = ""
               /\ fieldError'[f] = "")
         /\ ~validateField(f, fieldValue[f]) <=>
              (/\ fieldClassError'[f]
               /\ fieldAriaInvalid'[f] = "true"
               /\ fieldError'[f] # "")]_vars

\* A message of 9 characters between blanks has been marked as too short
\* on blur, the other fields not yet validated.
C37_Witness ==
  /\ lastEvent.kind = "blur"
  /\ fieldValue["message"] = "  aaaaaaaaa "
  /\ fieldClassError["message"]
  /\ fieldAriaInvalid["message"] = "true"
  /\ fieldError["message"] = TooShort
  /\ ~fieldClassError["email"]

====
